---- MODULE Spec2Model ----
(***************************************************************************)
(* Receipt processing core: the sort engine (algorithms/sort_algorithms),  *)
(* the search engine with its hash indexes (algorithms/search_algorithms)  *)
(* and the request handlers of main.py that drive them.                    *)
(*                                                                         *)
(* Strings are sequences of one-character strings, an optional column is   *)
(* <<>> (None / NULL) or <<v>>, dates are day numbers >= 1.  List indexes  *)
(* keep the source's 0-based values; At and Swap translate them.           *)
(***************************************************************************)
EXTENDS Integers, Sequences, FiniteSets, TLC

VARIABLES
    receipts,          \* sort engine caller: the caller's collection
    result,            \* sort engine caller: the collection the last call returned
    comparison_count,  \* SortAlgorithms.comparison_count
    swap_count,        \* SortAlgorithms.swap_count
    bench,             \* the metrics the last call returned (benchmark_algorithms)
    result_obj,        \* which list object `result` is: "caller", "copy", "new"
    last,              \* the last sort call: its name and arguments
    db,                \* storage: the rows of table receipts, in id order
    vendor_index,      \* SearchAlgorithms.vendor_index
    category_index,    \* SearchAlgorithms.category_index
    keyword_index,     \* SearchAlgorithms.keyword_index
    index_db,          \* the rows the last completed index build read
    refreshed,         \* the rows the last refresh_indexes was the first to index
    refresh,           \* a running _build_search_indexes: its position
    changes,           \* storage changes made so far
    query,             \* the search call that has just returned
    search_result,     \* the rows it returned
    requests,          \* the search requests in flight: position and locals
    engines,           \* the SortAlgorithms instances constructed so far
    called,            \* the function that has just been applied, or "none"
    arguments,         \* the arguments it is applied to
    returned           \* the value it returned

sortVars ==
    <<receipts, result, comparison_count, swap_count, bench, result_obj, last>>
searchVars ==
    <<db, vendor_index, category_index, keyword_index, index_db, refreshed,
      refresh, changes, query, search_result>>
requestVars == <<requests, engines>>
callVars == <<called, arguments, returned>>
vars == <<sortVars, searchVars, requestVars, callVars>>

----------------------------------------------------------------------------
(* Bounds *)

MaxLen == 3        \* longest collection handed to the sort engine
MaxRows == 2       \* most rows the table holds at a time
MaxChanges == 2    \* most storage changes (upload, update, delete) in a run
MaxStr == 3        \* longest string handed to _calculate_similarity

----------------------------------------------------------------------------
(* Optional values and characters *)

None == <<>>
Some(v) == <<v>>
IsNone(o) == o = <<>>
Val(o) == o[1]
T(s) == Some(s)

UpperCase == <<"A","B","C","D","E","F","G","H","I","J","K","L","M",
               "N","O","P","Q","R","S","T","U","V","W","X","Y","Z">>
LowerCase == <<"a","b","c","d","e","f","g","h","i","j","k","l","m",
               "n","o","p","q","r","s","t","u","v","w","x","y","z">>
DigitChars == <<"0","1","2","3","4","5","6","7","8","9">>
\* the characters of the model in code point order
Alphabet ==
    <<" ", "%", "(", "*", ".">> \o DigitChars \o UpperCase \o <<"_">>
        \o LowerCase

Range(s) == {s[i] : i \in DOMAIN s}
Chars == Range(Alphabet)
Letters == Range(UpperCase) \cup Range(LowerCase)
IsLetter(c) == c \in Letters
OrdTable == [c \in Chars |-> CHOOSE i \in DOMAIN Alphabet : Alphabet[i] = c]
Ord(c) == OrdTable[c]

\* str.lower()
LowerTable ==
    [c \in Chars |->
        IF c \in Range(UpperCase)
        THEN LowerCase[CHOOSE i \in DOMAIN UpperCase : UpperCase[i] = c]
        ELSE c]
LowerChar(c) == LowerTable[c]
Lower(s) == [i \in DOMAIN s |-> LowerChar(s[i])]

\* the order of Python's <, on numbers (one-element keys) and on strings
KeyLt(a, b) ==
    \E i \in 1..Len(b) :
        /\ i <= Len(a) + 1
        /\ \A j \in 1..(i - 1) : a[j] = b[j]
        /\ \/ i = Len(a) + 1
           \/ i <= Len(a) /\ a[i] < b[i]
KeyLe(a, b) == a = b \/ KeyLt(a, b)
KeyGe(a, b) == KeyLe(b, a)

----------------------------------------------------------------------------
(* Receipt records (models/database.Receipt) *)

Receipt(id, vendor, category, amount, tdate, udate, text) ==
    [id |-> id, vendor |-> vendor, category |-> category, amount |-> amount,
     transaction_date |-> tdate, upload_date |-> udate, raw_text |-> text]

DatetimeMin == 0   \* datetime.min: before every date a record can carry

\* the key extractors of sort_by_amount / sort_by_date / sort_by_vendor /
\* sort_by_category, named by the field they read
KeyFuncs == {"amount", "transaction_date", "upload_date", "vendor", "category"}

\* `x or ""`: None and the empty string both give ""
OrEmpty(o) == IF IsNone(o) THEN <<>> ELSE Val(o)
Ords(s) == [i \in DOMAIN s |-> Ord(s[i])]

key_func_missing_last(kf, r) ==
    CASE kf = "amount" ->
            <<IF ~IsNone(r.amount) THEN Val(r.amount) ELSE 0>>
      [] kf \in {"transaction_date", "upload_date"} ->
            <<IF ~IsNone(r[kf]) THEN Val(r[kf]) ELSE 99999999>>
      [] kf = "vendor" -> Ords(Lower(OrEmpty(r.vendor)))
      [] kf = "category" -> Ords(Lower(OrEmpty(r.category)))
key_func(kf, r) ==
    CASE kf = "amount" ->
            <<IF ~IsNone(r.amount) THEN Val(r.amount) ELSE 0>>
      [] kf = "transaction_date" ->
            <<IF ~IsNone(r.transaction_date) THEN Val(r.transaction_date)
              ELSE DatetimeMin>>
      [] kf = "upload_date" ->
            <<IF ~IsNone(r.upload_date) THEN Val(r.upload_date) ELSE DatetimeMin>>
      [] kf = "vendor" -> Ords(Lower(OrEmpty(r.vendor)))
      [] kf = "category" -> Ords(Lower(OrEmpty(r.category)))

----------------------------------------------------------------------------
(* Python lists *)

At(arr, i) == arr[i + 1]
Swap(arr, i, j) == [arr EXCEPT ![i + 1] = arr[j + 1], ![j + 1] = arr[i + 1]]
Slice(arr, lo, hi) == SubSeq(arr, lo + 1, hi)       \* arr[lo:hi]
Reverse(s) == [i \in DOMAIN s |-> s[Len(s) + 1 - i]]

\* list.copy(): a new list object with the same elements; writes to it do not
\* reach the original
ListCopyAlias(l) == [obj |-> "caller", items |-> l]
ListCopy(l) == [obj |-> "copy", items |-> l]

\* the caller's list after a callee has left `items` in list object `lst`
CallerList(original, lst, items) ==
    IF lst.obj = "caller" THEN items ELSE original

----------------------------------------------------------------------------
(* SortAlgorithms: `self` is [comparison_count, swap_count]; a sort returns
   [result, obj (the list object returned: the caller's own, the copy taken
   of it, or a new list), receipts (the caller's list afterwards),
   comparison_count, swap_count].

   Only({F(x) : x \in {e}}) is F applied to the value of e: it evaluates e
   once, where LET would evaluate it at every use. *)

Only(S) == CHOOSE x \in S : TRUE

reset_counters_keep(self) == self
reset_counters(self) == [comparison_count |-> 0, swap_count |-> 0]

\* _partition's test of one element against the pivot
should_swap_flipped(val, pivot, reverse) ==
    IF reverse THEN KeyLe(val, pivot) ELSE KeyGe(val, pivot)
should_swap(val, pivot, reverse) ==
    IF ~reverse THEN KeyLe(val, pivot) ELSE KeyGe(val, pivot)

RECURSIVE partition_loop(_, _, _, _, _, _, _)
\* for j in range(low, high): s is [arr, comparison_count, swap_count]
partition_loop(s, kf, reverse, pivot, i, j, high) ==
    IF j >= high THEN [s |-> s, i |-> i]
    ELSE
        LET s1 == [s EXCEPT !.comparison_count = @ + 1]
            step ==
                IF should_swap(key_func(kf, At(s.arr, j)), pivot, reverse)
                THEN [s |-> [s1 EXCEPT !.arr = Swap(@, i + 1, j),
                                       !.swap_count = @ + 1],
                      i |-> i + 1]
                ELSE [s |-> s1, i |-> i]
        IN  Only({partition_loop(n.s, kf, reverse, pivot, n.i, j + 1, high) :
                    n \in {step}})

\* a partition around the middle element
partition_middle(s, kf, reverse, low, high) ==
    Only({[s |-> [l.s EXCEPT !.arr = Swap(@, l.i + 1, high), !.swap_count = @ + 1],
           pivot_index |-> l.i + 1] :
            l \in {partition_loop(
                      [s EXCEPT !.arr = Swap(@, (low + high) \div 2, high)],
                      kf, reverse, key_func(kf, At(s.arr, (low + high) \div 2)),
                      low - 1, low, high)}})
partition(s, kf, reverse, low, high) ==
    Only({[s |-> [l.s EXCEPT !.arr = Swap(@, l.i + 1, high), !.swap_count = @ + 1],
           pivot_index |-> l.i + 1] :
            l \in {partition_loop(s, kf, reverse, key_func(kf, At(s.arr, high)),
                                  low - 1, low, high)}})

RECURSIVE quicksort_recursive(_, _, _, _, _)
quicksort_recursive(s, kf, reverse, low, high) ==
    IF low < high
    THEN Only({Only({quicksort_recursive(s1, kf, reverse, p.pivot_index + 1, high) :
                        s1 \in {quicksort_recursive(p.s, kf, reverse, low,
                                                    p.pivot_index - 1)}}) :
                p \in {partition(s, kf, reverse, low, high)}})
    ELSE s

quicksort(self, rs, kf, reverse) ==
    LET c0 == reset_counters(self)
        lst == ListCopy(rs)
    IN  Only({[result |-> s.arr, obj |-> lst.obj,
               receipts |-> CallerList(rs, lst, s.arr),
               comparison_count |-> s.comparison_count,
               swap_count |-> s.swap_count] :
                s \in {quicksort_recursive(
                          [arr |-> lst.items,
                           comparison_count |-> c0.comparison_count,
                           swap_count |-> c0.swap_count],
                          kf, reverse, 0, Len(rs) - 1)}})

\* _merge's choice between the heads of the two halves
should_take_left_strict(left_val, right_val, reverse) ==
    IF ~reverse THEN KeyLt(left_val, right_val) ELSE KeyLt(right_val, left_val)
should_take_left(left_val, right_val, reverse) ==
    IF ~reverse THEN KeyLe(left_val, right_val) ELSE KeyGe(left_val, right_val)

RECURSIVE merge_loop(_, _, _, _, _, _, _, _)
\* while i < len(left) and j < len(right), then the two extends
merge_loop(left, right, kf, reverse, i, j, res, cc) ==
    IF i < Len(left) /\ j < Len(right)
    THEN LET left_val == key_func(kf, At(left, i))
             right_val == key_func(kf, At(right, j))
         IN  IF should_take_left(left_val, right_val, reverse)
             THEN merge_loop(left, right, kf, reverse, i + 1, j,
                             Append(res, At(left, i)), cc + 1)
             ELSE merge_loop(left, right, kf, reverse, i, j + 1,
                             Append(res, At(right, j)), cc + 1)
    ELSE [arr |-> res \o Slice(left, i, Len(left)) \o Slice(right, j, Len(right)),
          comparison_count |-> cc]

merge(left, right, kf, reverse, cc) ==
    merge_loop(left, right, kf, reverse, 0, 0, <<>>, cc)

RECURSIVE mergesort_recursive(_, _, _, _)
mergesort_recursive(arr, kf, reverse, cc) ==
    IF Len(arr) <= 1 THEN [arr |-> arr, comparison_count |-> cc]
    ELSE LET mid == Len(arr) \div 2
         IN  Only({Only({merge(left.arr, right.arr, kf, reverse,
                               right.comparison_count) :
                            right \in {mergesort_recursive(
                                          Slice(arr, mid, Len(arr)), kf, reverse,
                                          left.comparison_count)}}) :
                    left \in {mergesort_recursive(Slice(arr, 0, mid), kf,
                                                  reverse, cc)}})

mergesort(self, rs, kf, reverse) ==
    LET c0 == reset_counters(self)
        lst == ListCopy(rs)
    IN  Only({[result |-> s.arr,
               obj |-> IF Len(rs) <= 1 THEN lst.obj ELSE "new",
               receipts |-> rs,
               comparison_count |-> s.comparison_count,
               swap_count |-> c0.swap_count] :
                s \in {mergesort_recursive(lst.items, kf, reverse,
                                           c0.comparison_count)}})

\* sorted(): a new list, stable; reverse=True reverses, sorts ascending and
\* reverses again, which keeps equal keys in input order
RECURSIVE sorted_asc(_, _)
sorted_asc(l, kf) ==
    IF l = <<>> THEN <<>>
    ELSE LET x == l[Len(l)]
             \* x goes after every element whose key is <= its own
             n(init) == Cardinality({i \in DOMAIN init :
                                 KeyLe(key_func(kf, init[i]), key_func(kf, x))})
         IN  Only({SubSeq(init, 1, n(init)) \o <<x>>
                        \o SubSeq(init, n(init) + 1, Len(init)) :
                    init \in {sorted_asc(SubSeq(l, 1, Len(l) - 1), kf)}})

sorted(l, kf, reverse) ==
    IF reverse THEN Reverse(sorted_asc(Reverse(l), kf)) ELSE sorted_asc(l, kf)

timsort(self, rs, kf, reverse) ==
    LET c0 == reset_counters(self)
    IN  [result |-> sorted(rs, kf, reverse), obj |-> "new", receipts |-> rs,
         comparison_count |-> c0.comparison_count, swap_count |-> c0.swap_count]

Algorithms == {"quicksort", "mergesort", "timsort"}

\* the if / elif / else on `algorithm` that the four field helpers share
run_algorithm(self, rs, kf, reverse, algorithm) ==
    IF algorithm = "quicksort" THEN quicksort(self, rs, kf, reverse)
    ELSE IF algorithm = "mergesort" THEN mergesort(self, rs, kf, reverse)
    ELSE timsort(self, rs, kf, reverse)

sort_by_amount(self, rs, reverse, algorithm) ==
    run_algorithm(self, rs, "amount", reverse, algorithm)
sort_by_date(self, rs, field, reverse, algorithm) ==
    run_algorithm(self, rs, field, reverse, algorithm)
sort_by_vendor(self, rs, reverse, algorithm) ==
    run_algorithm(self, rs, "vendor", reverse, algorithm)
sort_by_category(self, rs, reverse, algorithm) ==
    run_algorithm(self, rs, "category", reverse, algorithm)

\* a criteria dict: "reverse" may be missing (criteria.get("reverse", False))
Criterion(field, reverse) == [field |-> field, reverse |-> reverse]
GetReverse(criteria) ==
    IF IsNone(criteria.reverse) THEN FALSE ELSE Val(criteria.reverse)

\* reversed(sort_criteria)
reversed_forward(l) == l
reversed(l) == Reverse(l)

RECURSIVE multi_level_loop(_, _)
\* for criteria in <todo>: st is [result, obj, comparison_count, swap_count]
multi_level_loop(st, todo) ==
    IF todo = <<>> THEN st
    ELSE
        LET criteria == Head(todo)
            field == criteria.field
            reverse == GetReverse(criteria)
            sort ==
                IF field = "amount"
                    THEN sort_by_amount(st, st.result, reverse, "timsort")
                ELSE IF field \in {"transaction_date", "upload_date"}
                    THEN sort_by_date(st, st.result, field, reverse, "timsort")
                ELSE IF field = "vendor"
                    THEN sort_by_vendor(st, st.result, reverse, "timsort")
                ELSE IF field = "category"
                    THEN sort_by_category(st, st.result, reverse, "timsort")
                ELSE st
        IN  Only({multi_level_loop(
                    [result |-> r.result, obj |-> r.obj,
                     comparison_count |-> r.comparison_count,
                     swap_count |-> r.swap_count],
                    Tail(todo)) : r \in {sort}})

multi_level_sort(self, rs, sort_criteria) ==
    LET lst == ListCopy(rs)
    IN  Only({[result |-> st.result, obj |-> st.obj, receipts |-> rs,
               comparison_count |-> st.comparison_count,
               swap_count |-> st.swap_count] :
                st \in {multi_level_loop(
                           [result |-> lst.items, obj |-> lst.obj,
                            comparison_count |-> self.comparison_count,
                            swap_count |-> self.swap_count],
                           reversed(sort_criteria))}})

\* benchmark_algorithms: timsort, quicksort, mergesort in that order, the
\* counters read after each; {} and no sort at all on an empty collection
benchmark_algorithms(self, rs, kf) ==
    IF Len(rs) = 0
    THEN [results |-> {}, comparison_count |-> self.comparison_count,
          swap_count |-> self.swap_count]
    ELSE
        LET Entry(algo, r) == [algo |-> algo, comparisons |-> r.comparison_count,
                               swaps |-> r.swap_count, success |-> TRUE]
            After(t) ==
                Only({Only({[results |-> {Entry("timsort", t),
                                          Entry("quicksort", q),
                                          Entry("mergesort", m)},
                             comparison_count |-> m.comparison_count,
                             swap_count |-> m.swap_count] :
                                m \in {mergesort(q, rs, kf, FALSE)}}) :
                        q \in {quicksort(t, rs, kf, FALSE)}})
        IN  Only({After(t) : t \in {timsort(self, rs, kf, FALSE)}})

----------------------------------------------------------------------------
(* SQL and str operations of the search engine *)

\* Python truthiness of an optional string: None and "" are falsy
Truthy(o) == ~IsNone(o) /\ Val(o) # <<>>

RECURSIVE LikeMatch(_, _)
\* text LIKE pattern, case-insensitive as ilike is: % stands for any run of
\* characters, _ for any one character; the queries declare no escape
LikeMatch(text, pattern) ==
    IF pattern = <<>> THEN text = <<>>
    ELSE IF Head(pattern) = "%"
        THEN \/ LikeMatch(text, Tail(pattern))
             \/ text # <<>> /\ LikeMatch(Tail(text), pattern)
    ELSE IF text = <<>> THEN FALSE
    ELSE /\ \/ Head(pattern) = "_"
            \/ LowerChar(Head(pattern)) = LowerChar(Head(text))
         /\ LikeMatch(Tail(text), Tail(pattern))

\* column.ilike(f"%{txt}%"): a NULL column matches nothing
ILike(column, txt) ==
    ~IsNone(column) /\ LikeMatch(Val(column), <<"%">> \o txt \o <<"%">>)

\* \w, which decides where \b holds
IsWordChar(c) == IsLetter(c) \/ c \in Range(DigitChars) \/ c = "_"

stop_words ==
    { <<"t","h","e">>, <<"a","n","d">>, <<"f","o","r">>, <<"a","r","e">>,
      <<"b","u","t">>, <<"n","o","t">>, <<"y","o","u">>, <<"a","l","l">>,
      <<"c","a","n">>, <<"h","a","d">>, <<"h","e","r">>, <<"w","a","s">>,
      <<"o","n","e">>, <<"o","u","r">>, <<"o","u","t">>, <<"d","a","y">>,
      <<"g","e","t">>, <<"h","a","s">>, <<"h","i","m">>, <<"h","i","s">>,
      <<"h","o","w">>, <<"i","t","s">>, <<"m","a","y">>, <<"n","e","w">>,
      <<"n","o","w">>, <<"o","l","d">>, <<"s","e","e">>, <<"t","w","o">>,
      <<"w","h","o">>, <<"b","o","y">>, <<"d","i","d">>, <<"s","h","e">>,
      <<"u","s","e">>, <<"w","a","y">>, <<"w","i","l","l">>,
      <<"w","i","t","h">> }

\* re.findall(r'\b[A-Za-z]{3,}\b', s): the runs of 3 or more letters that
\* have a word boundary on either side
findall_words(s) ==
    { SubSeq(s, i, j) : <<i, j>> \in
        { p \in (DOMAIN s) \X (DOMAIN s) :
            /\ p[1] + 2 <= p[2]
            /\ \A k \in p[1]..p[2] : IsLetter(s[k])
            /\ p[1] = 1 \/ ~IsWordChar(s[p[1] - 1])
            /\ p[2] = Len(s) \/ ~IsWordChar(s[p[2] + 1]) } }

\* _extract_keywords: list(set(...)), read as the set
extract_keywords(text) ==
    IF text = <<>> THEN {}
    ELSE {word \in findall_words(Lower(text)) :
            word \notin stop_words /\ Len(word) >= 3}

\* `if key not in d: d[key] = []` then `d[key].append(v)`, for each key
DictAppend(d, keys, v) ==
    [k \in DOMAIN d \cup keys |->
        IF k \notin keys THEN d[k]
        ELSE IF k \in DOMAIN d THEN Append(d[k], v) ELSE <<v>>]

----------------------------------------------------------------------------
(* SearchAlgorithms: the three indexes are [vendor_index, category_index,
   keyword_index], each a dict from a lower-cased key to a list of ids *)

EmptyIndexes ==
    [vendor_index |-> <<>>, category_index |-> <<>>, keyword_index |-> <<>>]

\* _build_search_indexes: the body of `for receipt in receipts`
index_receipt(ix, receipt) ==
    [vendor_index |->
        IF Truthy(receipt.vendor)
        THEN DictAppend(ix.vendor_index, {Lower(Val(receipt.vendor))}, receipt.id)
        ELSE ix.vendor_index,
     category_index |->
        IF Truthy(receipt.category)
        THEN DictAppend(ix.category_index, {Lower(Val(receipt.category))},
                        receipt.id)
        ELSE ix.category_index,
     keyword_index |->
        IF Truthy(receipt.raw_text)
        THEN DictAppend(ix.keyword_index, extract_keywords(Val(receipt.raw_text)),
                        receipt.id)
        ELSE ix.keyword_index]

RECURSIVE index_loop(_, _)
index_loop(ix, rows) ==
    IF rows = <<>> THEN ix
    ELSE Only({index_loop(ix1, Tail(rows)) :
                ix1 \in {index_receipt(ix, Head(rows))}})

build_search_indexes(rows) == index_loop(EmptyIndexes, rows)

\* hash_search's key: value.lower()
value_key_raw(value) == value
value_key(value) == Lower(value)

\* hash_search that drops a record whose vendor or category is no longer the
\* one asked for
hash_search_rechecked(ix, rows, field, value) ==
    LET key == value_key(value)
        receipt_ids ==
            IF field = "vendor" /\ key \in DOMAIN ix.vendor_index
                THEN ix.vendor_index[key]
            ELSE IF field = "category" /\ key \in DOMAIN ix.category_index
                THEN ix.category_index[key]
            ELSE IF field = "keyword" /\ key \in DOMAIN ix.keyword_index
                THEN ix.keyword_index[key]
            ELSE <<>>
    IN  SelectSeq(rows, LAMBDA r :
            /\ r.id \in Range(receipt_ids)
            /\ field \in {"vendor", "category"} =>
                  (Truthy(r[field]) /\ Lower(Val(r[field])) = key))

hash_search(ix, rows, field, value) ==
    LET key == value_key(value)
        receipt_ids ==
            IF field = "vendor" /\ key \in DOMAIN ix.vendor_index
                THEN ix.vendor_index[key]
            ELSE IF field = "category" /\ key \in DOMAIN ix.category_index
                THEN ix.category_index[key]
            ELSE IF field = "keyword" /\ key \in DOMAIN ix.keyword_index
                THEN ix.keyword_index[key]
            ELSE <<>>
    IN  IF receipt_ids # <<>>
        THEN SelectSeq(rows, LAMBDA r : r.id \in Range(receipt_ids))
        ELSE <<>>

\* list({receipt.id: receipt for receipt in all_results}.values())
unique_by_id(all_results) ==
    LET first ==
            SelectSeq([i \in DOMAIN all_results |-> i],
                      LAMBDA i : \A j \in 1..(i - 1) :
                                    all_results[j].id # all_results[i].id)
    IN  [k \in DOMAIN first |-> all_results[first[k]]]

keyword_search(ix, rows, keyword) ==
    LET hash_results == hash_search(ix, rows, "keyword", Lower(keyword))
        sql_results ==
            SelectSeq(rows, LAMBDA r : \/ ILike(r.vendor, keyword)
                                       \/ ILike(r.raw_text, keyword)
                                       \/ ILike(r.category, keyword))
    IN  unique_by_id(hash_results \o sql_results)

\* the filters dict: a key that is absent reads None, as filters.get gives
Filters(vendor, category, min_amount, max_amount, start_date, end_date, keyword) ==
    [vendor |-> vendor, category |-> category, min_amount |-> min_amount,
     max_amount |-> max_amount, start_date |-> start_date,
     end_date |-> end_date, keyword |-> keyword]

\* a comparison with a NULL column is not true
multi_criteria_search(rows, filters) ==
    SelectSeq(rows, LAMBDA r :
        /\ Truthy(filters.vendor) => ILike(r.vendor, Val(filters.vendor))
        /\ Truthy(filters.category) => ILike(r.category, Val(filters.category))
        /\ ~IsNone(filters.min_amount) =>
              ~IsNone(r.amount) /\ Val(r.amount) >= Val(filters.min_amount)
        /\ ~IsNone(filters.max_amount) =>
              ~IsNone(r.amount) /\ Val(r.amount) <= Val(filters.max_amount)
        /\ ~IsNone(filters.start_date) =>
              /\ ~IsNone(r.transaction_date)
              /\ Val(r.transaction_date) >= Val(filters.start_date)
        /\ ~IsNone(filters.end_date) =>
              /\ ~IsNone(r.transaction_date)
              /\ Val(r.transaction_date) <= Val(filters.end_date)
        /\ Truthy(filters.keyword) =>
              \/ ILike(r.vendor, Val(filters.keyword))
              \/ ILike(r.raw_text, Val(filters.keyword))
              \/ ILike(r.category, Val(filters.keyword)))

----------------------------------------------------------------------------
(* The values a search reads off a record and is given as an argument: a
   Python value is the pair of its type and its payload *)

PyNone == <<"NoneType">>
PyStr(s) == <<"str", s>>
PyInt(n) == <<"int", n>>
\* a float with no fractional part, as the amounts of the model are
PyFloat(n) == <<"float", n>>

RECURSIVE Digits(_)
\* the decimal digits of a natural number
Digits(n) ==
    IF n < 10 THEN <<DigitChars[n + 1]>>
    ELSE Digits(n \div 10) \o <<DigitChars[(n % 10) + 1]>>

\* hasattr(receipt, field), over the columns the model keeps
hasattr(receipt, field) == field \in DOMAIN receipt

\* getattr(receipt, field): Integer, String/Text and Float columns
getattr(receipt, field) ==
    IF field = "id" THEN PyInt(receipt.id)
    ELSE IF IsNone(receipt[field]) THEN PyNone
    ELSE IF field = "amount" THEN PyFloat(Val(receipt.amount))
    ELSE PyStr(Val(receipt[field]))

\* the truth value of `if v`: None, "", 0 and 0.0 are false
py_bool(v) ==
    CASE v[1] = "NoneType" -> FALSE
      [] v[1] = "str" -> v[2] # <<>>
      [] v[1] = "int" -> v[2] # 0
      [] v[1] = "float" -> v[2] # 0

\* str(v): repr of a float keeps the point, "10.0" for 10.0
py_str(v) ==
    CASE v[1] = "NoneType" -> <<"N","o","n","e">>
      [] v[1] = "str" -> v[2]
      [] v[1] = "int" -> Digits(v[2])
      [] v[1] = "float" -> Digits(v[2]) \o <<".", "0">>

\* linear_search comparing the two strings as they are written
linear_search_exact(rows, field, value) ==
    SelectSeq(rows, LAMBDA receipt :
        /\ hasattr(receipt, field)
        /\ py_bool(getattr(receipt, field))
        /\ py_str(getattr(receipt, field)) = py_str(value))

linear_search(rows, field, value) ==
    SelectSeq(rows, LAMBDA receipt :
        /\ hasattr(receipt, field)
        /\ py_bool(getattr(receipt, field))
        /\ Lower(py_str(getattr(receipt, field))) = Lower(py_str(value)))

\* the columns range_search filters on
RangeFields == {"amount", "transaction_date", "upload_date"}

\* range_search: a filter is added for the three columns only, and query.all()
\* follows whether or not one was; a comparison with a NULL column is not true
range_search(rows, field, min_value, max_value) ==
    IF field \in RangeFields
    THEN SelectSeq(rows, LAMBDA r :
            /\ ~IsNone(r[field])
            /\ Val(r[field]) >= min_value
            /\ Val(r[field]) <= max_value)
    ELSE rows

\* re.compile(pattern, re.IGNORECASE) over the patterns of the model: a
\* character stands for itself, . for any character, * repeats the item
\* before it; re.error is raised for an unclosed (, for * with nothing to
\* repeat and for * after *
re_valid(pattern) ==
    /\ "(" \notin Range(pattern)
    /\ pattern # <<>> => pattern[1] # "*"
    /\ \A i \in 1..(Len(pattern) - 1) :
          ~(pattern[i] = "*" /\ pattern[i + 1] = "*")

re_item_matches(item, c) == item = "." \/ LowerChar(item) = LowerChar(c)

RECURSIVE re_match(_, _)
\* the pattern matches a prefix of the text
re_match(text, pattern) ==
    IF pattern = <<>> THEN TRUE
    ELSE IF Len(pattern) >= 2 /\ pattern[2] = "*"
        THEN \/ re_match(text, SubSeq(pattern, 3, Len(pattern)))
             \/ /\ text # <<>>
                /\ re_item_matches(pattern[1], Head(text))
                /\ re_match(Tail(text), pattern)
    ELSE /\ text # <<>>
         /\ re_item_matches(pattern[1], Head(text))
         /\ re_match(Tail(text), Tail(pattern))

\* regex_pattern.search(text): a match starting anywhere in the text
re_search(text, pattern) ==
    \E i \in 0..Len(text) : re_match(SubSeq(text, i + 1, Len(text)), pattern)

\* pattern_search: re.error leaves the try block before any record is read
pattern_search(ix, rows, field, pattern) ==
    IF re_valid(pattern)
    THEN SelectSeq(rows, LAMBDA receipt :
            /\ hasattr(receipt, field)
            /\ py_bool(getattr(receipt, field))
            /\ re_search(py_str(getattr(receipt, field)), pattern))
    ELSE keyword_search(ix, rows, pattern)

----------------------------------------------------------------------------
(* Similarity and fuzzy search.  A similarity or threshold is the fraction
   <<n, d>>, d > 0: 1.0 - distance / max_len is <<max_len - distance,
   max_len>> *)

Frac(n, d) == <<n, d>>
FracGe(a, b) == a[1] * b[2] >= b[1] * a[2]
FracEq(a, b) == a[1] * b[2] = b[1] * a[2]

Min3(a, b, c) ==
    IF a <= b /\ a <= c THEN a ELSE IF b <= c THEN b ELSE c

\* cost = 0 if str1[i-1] == str2[j-1] else 1
substitution_cost_two(a, b) == IF a = b THEN 0 ELSE 2
substitution_cost(a, b) == IF a = b THEN 0 ELSE 1

RECURSIVE matrix_row(_, _, _, _)
\* `for j in range(1, len2 + 1)`: row i of the matrix from row i-1 (prev);
\* row holds matrix[i][0 .. j-1], at positions 1 .. j
matrix_row(prev, c, str2, row) ==
    IF Len(row) = Len(str2) + 1 THEN row
    ELSE LET j == Len(row)
         IN  Only({matrix_row(prev, c, str2, r) :
                r \in {Append(row,
                          Min3(prev[j + 1] + 1,
                               row[j] + 1,
                               prev[j] + substitution_cost(c, str2[j])))}})

RECURSIVE matrix_rows(_, _, _, _)
\* `for i in range(1, len1 + 1)`: the last row of the matrix
matrix_rows(str1, str2, i, prev) ==
    IF i > Len(str1) THEN prev
    ELSE Only({matrix_rows(str1, str2, i + 1, r) :
            r \in {matrix_row(prev, str1[i], str2, <<i>>)}})

\* matrix[len1][len2]; row 0 is 0 .. len2
levenshtein(str1, str2) ==
    matrix_rows(str1, str2, 1, [j \in 1..(Len(str2) + 1) |-> j - 1])[Len(str2) + 1]

\* _calculate_similarity: the first test returns 0.0 when either string is
\* empty, so the tests on len1 and len2 after it never hold
calculate_similarity(str1, str2) ==
    IF str1 = <<>> \/ str2 = <<>> THEN Frac(0, 1)
    ELSE LET max_len == IF Len(str1) >= Len(str2) THEN Len(str1) ELSE Len(str2)
         IN  Only({Frac(max_len - distance, max_len) :
                    distance \in {levenshtein(str1, str2)}})

\* results.sort(key=lambda x: x[1], reverse=True): stable, so an item goes
\* after the items before it whose similarity is not less
insert_by_similarity(sorted_results, x) ==
    LET k == Cardinality({i \in DOMAIN sorted_results :
                            FracGe(sorted_results[i][2], x[2])})
    IN  SubSeq(sorted_results, 1, k) \o <<x>>
            \o SubSeq(sorted_results, k + 1, Len(sorted_results))

RECURSIVE sort_by_similarity(_)
sort_by_similarity(results) ==
    IF results = <<>> THEN <<>>
    ELSE Only({insert_by_similarity(done, results[Len(results)]) :
            done \in {sort_by_similarity(SubSeq(results, 1, Len(results) - 1))}})

RECURSIVE fuzzy_scan(_, _, _, _)
\* `for receipt in receipts`: the (receipt, similarity) pairs kept
fuzzy_scan(rows, field, value, threshold) ==
    IF rows = <<>> THEN <<>>
    ELSE LET receipt == Head(rows)
             rest == fuzzy_scan(Tail(rows), field, value, threshold)
         IN  IF hasattr(receipt, field) /\ py_bool(getattr(receipt, field))
             THEN Only({IF FracGe(similarity, threshold)
                        THEN <<<<receipt, similarity>>>> \o rest
                        ELSE rest :
                    similarity \in
                        {calculate_similarity(
                            Lower(py_str(getattr(receipt, field))),
                            Lower(value))}})
             ELSE rest

fuzzy_search(rows, field, value, threshold) ==
    LET results == sort_by_similarity(fuzzy_scan(rows, field, value, threshold))
    IN  [i \in DOMAIN results |-> results[i][1]]

----------------------------------------------------------------------------
(* Storage: table receipts, as the handlers of main.py change it *)

\* what upload_receipt stores of a file: the parsed fields and the raw text
Parsed(vendor, category, amount, tdate, text) ==
    [vendor |-> vendor, category |-> category, amount |-> amount,
     transaction_date |-> tdate, raw_text |-> text]

\* a parsed receipt, one whose text names a stop word and a word that is not
\* letters only, and a file whose processing failed
Uploads ==
    { Parsed(T(<<"T","e","a">>), T(<<"B","a","r">>), Some(10), Some(1),
             T(<<"T","e","a"," ","b","a","r">>)),
      Parsed(T(<<"t","e","a">>), None, Some(0), Some(2),
             T(<<"t","h","e"," ","T","E","A","_","9"," ","t","e","a">>)),
      Parsed(None, None, None, None, None) }

\* the id SQLite gives a new row of an INTEGER PRIMARY KEY column: one more
\* than the largest id in the table
next_id(rows) == IF rows = <<>> THEN 1 ELSE rows[Len(rows)].id + 1

\* db.add(Receipt(...)); db.commit()
insert_receipt(rows, parsed, now) ==
    Append(rows, Receipt(next_id(rows), parsed.vendor, parsed.category,
                         parsed.amount, parsed.transaction_date, Some(now),
                         parsed.raw_text))

\* the fields a PUT request sets (receipt_update.dict(exclude_unset=True)):
\* here the vendor, emptied, and the category
Updates == { [vendor |-> T(<<>>), category |-> T(<<"t","e","a">>)] }

\* update_receipt: setattr(receipt, field, value) for each field set
set_fields(rows, receipt_id, upd) ==
    [i \in DOMAIN rows |->
        IF rows[i].id = receipt_id
        THEN [f \in DOMAIN rows[i] |->
                IF f \in DOMAIN upd THEN upd[f] ELSE rows[i][f]]
        ELSE rows[i]]

\* db.delete(receipt); db.commit()
delete_row(rows, receipt_id) == SelectSeq(rows, LAMBDA r : r.id # receipt_id)

RECURSIVE Table(_)
\* the table after the uploads of a list of files, one a day
Table(files) ==
    IF files = <<>> THEN <<>>
    ELSE insert_receipt(Table(SubSeq(files, 1, Len(files) - 1)),
                        files[Len(files)], Len(files))
Tables == {Table(files) : files \in UNION {[1..n -> Uploads] : n \in 0..MaxRows}}

\* datetime.utcnow of the next upload: later than every upload before it
Now == MaxRows + 1 + changes

\* a row as the record it is through updates: the id and the upload date
RowKey(r) == <<r.id, r.upload_date>>
RowKeys(rows) == {RowKey(rows[i]) : i \in DOMAIN rows}

----------------------------------------------------------------------------
(* The parts of the state a specification does not drive *)

NoCall ==
    [op |-> "none", kf |-> "", reverse |-> FALSE, algorithm |-> "",
     criteria |-> <<>>, input |-> <<>>]
NoFilters == Filters(None, None, None, None, None, None, None)
NoQuery == [op |-> "none", field |-> "", value |-> <<>>, filters |-> NoFilters]
NoRefresh == [pc |-> "idle", read |-> <<>>, todo |-> <<>>]

SortIdle ==
    /\ receipts = <<>>
    /\ result = <<>>
    /\ result_obj = "none"
    /\ comparison_count = 0
    /\ swap_count = 0
    /\ bench = {}
    /\ last = NoCall

SearchIdle ==
    /\ db = <<>>
    /\ vendor_index = <<>>
    /\ category_index = <<>>
    /\ keyword_index = <<>>
    /\ index_db = <<>>
    /\ refreshed = {}
    /\ refresh = NoRefresh
    /\ changes = 0
    /\ query = NoQuery
    /\ search_result = <<>>

RequestIdle ==
    /\ requests = <<>>
    /\ engines = <<>>

CallIdle ==
    /\ called = "none"
    /\ arguments = <<>>
    /\ returned = <<>>

----------------------------------------------------------------------------
(* The sort engine driven by a caller: one SortAlgorithms instance, one
   collection, any sequence of calls *)

SortPool ==
    { Receipt(1, T(<<"b">>), T(<<"x">>), Some(30), Some(2), Some(1), None),
      Receipt(2, T(<<"A">>), T(<<"x">>), Some(10), None, Some(2), None),
      Receipt(3, T(<<"a">>), T(<<"Y">>), None, Some(1), Some(3), None),
      Receipt(4, None, None, Some(10), Some(2), Some(4), None) }

\* the collections a caller passes: lists of distinct records
Collections(pool, n) ==
    {l \in UNION {[1..k -> pool] : k \in 0..n} :
        \A i, j \in DOMAIN l : i # j => l[i] # l[j]}

Criteria ==
    {Criterion(f, Some(d)) :
        f \in {"amount", "transaction_date", "vendor", "category"},
        d \in BOOLEAN}
    \cup {Criterion("amount", None), Criterion("filename", Some(FALSE))}
PrimaryCriteria ==
    {Criterion("category", Some(FALSE)), Criterion("vendor", Some(TRUE)),
     Criterion("amount", None)}
CriteriaLists ==
    {<<>>} \cup {<<a>> : a \in Criteria}
    \cup {<<a, b>> : a \in PrimaryCriteria, b \in Criteria}

\* the key extractors handed to quicksort / mergesort / timsort directly
CallerKeyFuncs == {"amount", "vendor", "transaction_date"}

Self == [comparison_count |-> comparison_count, swap_count |-> swap_count]

Call(op, kf, reverse, algorithm, criteria) ==
    [op |-> op, kf |-> kf, reverse |-> reverse, algorithm |-> algorithm,
     criteria |-> criteria, input |-> receipts]

Returned(ret, call) ==
    \E r \in {ret} :
        /\ result' = r.result
        /\ result_obj' = r.obj
        /\ receipts' = r.receipts
        /\ comparison_count' = r.comparison_count
        /\ swap_count' = r.swap_count
        /\ last' = call
        /\ bench' = {}
        /\ UNCHANGED <<searchVars, requestVars, callVars>>

SortInit ==
    /\ receipts \in Collections(SortPool, MaxLen)
    /\ result = <<>>
    /\ result_obj = "none"
    /\ comparison_count = 0
    /\ swap_count = 0
    /\ bench = {}
    /\ last = NoCall
    /\ SearchIdle
    /\ RequestIdle
    /\ CallIdle

Quicksort ==
    \E kf \in CallerKeyFuncs, reverse \in BOOLEAN :
        Returned(quicksort(Self, receipts, kf, reverse),
                 Call("quicksort", kf, reverse, "quicksort", <<>>))

Mergesort ==
    \E kf \in CallerKeyFuncs, reverse \in BOOLEAN :
        Returned(mergesort(Self, receipts, kf, reverse),
                 Call("mergesort", kf, reverse, "mergesort", <<>>))

Timsort ==
    \E kf \in CallerKeyFuncs, reverse \in BOOLEAN :
        Returned(timsort(Self, receipts, kf, reverse),
                 Call("timsort", kf, reverse, "timsort", <<>>))

SortByAmount ==
    \E reverse \in BOOLEAN, algorithm \in Algorithms :
        Returned(sort_by_amount(Self, receipts, reverse, algorithm),
                 Call("sort_by_amount", "amount", reverse, algorithm, <<>>))

SortByDate ==
    \E field \in {"transaction_date", "upload_date"}, reverse \in BOOLEAN,
       algorithm \in Algorithms :
        Returned(sort_by_date(Self, receipts, field, reverse, algorithm),
                 Call("sort_by_date", field, reverse, algorithm, <<>>))

SortByVendor ==
    \E reverse \in BOOLEAN, algorithm \in Algorithms :
        Returned(sort_by_vendor(Self, receipts, reverse, algorithm),
                 Call("sort_by_vendor", "vendor", reverse, algorithm, <<>>))

SortByCategory ==
    \E reverse \in BOOLEAN, algorithm \in Algorithms :
        Returned(sort_by_category(Self, receipts, reverse, algorithm),
                 Call("sort_by_category", "category", reverse, algorithm, <<>>))

MultiLevelSort ==
    \E sort_criteria \in CriteriaLists :
        Returned(multi_level_sort(Self, receipts, sort_criteria),
                 Call("multi_level_sort", "", FALSE, "timsort", sort_criteria))

BenchmarkAlgorithms ==
    \E kf \in CallerKeyFuncs :
        \E b \in {benchmark_algorithms(Self, receipts, kf)} :
            /\ bench' = b.results
            /\ comparison_count' = b.comparison_count
            /\ swap_count' = b.swap_count
            /\ last' = Call("benchmark_algorithms", kf, FALSE, "", <<>>)
            /\ result' = <<>>
            /\ result_obj' = "none"
            /\ UNCHANGED <<receipts, searchVars, requestVars, callVars>>

SortNext ==
    \/ Quicksort
    \/ Mergesort
    \/ Timsort
    \/ SortByAmount
    \/ SortByDate
    \/ SortByVendor
    \/ SortByCategory
    \/ MultiLevelSort
    \/ BenchmarkAlgorithms

SortSpec == SortInit /\ [][SortNext]_vars

----------------------------------------------------------------------------
(* Properties of the sort engine, over SortSpec *)

Count(l, x) == Cardinality({i \in DOMAIN l : l[i] = x})
IsPermutation(a, b) ==
    /\ Len(a) = Len(b)
    /\ \A i \in DOMAIN a : Count(a, a[i]) = Count(b, a[i])
Pos(l, x) == CHOOSE i \in DOMAIN l : l[i] = x
IsOrdered(l, kf, reverse) ==
    \A i \in 1..(Len(l) - 1) :
        IF reverse THEN KeyGe(key_func(kf, l[i]), key_func(kf, l[i + 1]))
        ELSE KeyLe(key_func(kf, l[i]), key_func(kf, l[i + 1]))
DistinctKeys(l, kf) ==
    \A i, j \in DOMAIN l : i # j => key_func(kf, l[i]) # key_func(kf, l[j])

\* SortAlgorithms(): a new instance
Fresh == [comparison_count |-> 0, swap_count |-> 0]

\* the calls that run one of the three algorithms once over last.input
SingleSortOps ==
    {"quicksort", "mergesort", "timsort", "sort_by_amount", "sort_by_date",
     "sort_by_vendor", "sort_by_category"}
LastAlone == run_algorithm(Fresh, last.input, last.kf, last.reverse, last.algorithm)

C2_Stable ==
    (last.op \in SingleSortOps /\ last.algorithm \in {"mergesort", "timsort"}) =>
        \A i, j \in DOMAIN last.input :
            (i < j /\ key_func(last.kf, last.input[i]) = key_func(last.kf, last.input[j]))
                => Pos(result, last.input[i]) < Pos(result, last.input[j])

C2_Witness ==
    /\ last.op = "mergesort"
    /\ last.reverse
    /\ Len(last.input) = MaxLen
    /\ result # last.input
    /\ \E i, j \in DOMAIN last.input :
          /\ i < j
          /\ key_func(last.kf, last.input[i]) = key_func(last.kf, last.input[j])

\* the criteria multi_level_sort acts on: those naming a field it knows
KnownCriteria(cs) ==
    SelectSeq(cs, LAMBDA c : c.field \in KeyFuncs)
\* a may stand before b under criteria cs, input order deciding full ties
LexBefore(a, b, cs, input) ==
    LET differs(k) == key_func(cs[k].field, a) # key_func(cs[k].field, b)
    IN  IF \E k \in DOMAIN cs : differs(k)
        THEN LET k == CHOOSE k \in DOMAIN cs :
                        differs(k) /\ \A m \in 1..(k - 1) : ~differs(m)
             IN  IF GetReverse(cs[k])
                 THEN KeyLt(key_func(cs[k].field, b), key_func(cs[k].field, a))
                 ELSE KeyLt(key_func(cs[k].field, a), key_func(cs[k].field, b))
        ELSE Pos(input, a) < Pos(input, b)

C10_InputUnchanged ==
    last.op # "none" =>
        /\ receipts = last.input
        /\ result_obj # "caller"

C10_Witness ==
    /\ last.op = "quicksort"
    /\ Len(last.input) = MaxLen
    /\ result # last.input
    /\ receipts = last.input

\* the key a record is placed by: a missing amount counts as 0, a missing
\* vendor or category as the empty string, and letters compare without case
AmountKey(r) == IF IsNone(r.amount) THEN 0 ELSE Val(r.amount)
TextKey(r, field) ==
    IF IsNone(r[field]) THEN <<>>
    ELSE [i \in DOMAIN Val(r[field]) |-> Ord(LowerChar(Val(r[field])[i]))]

\* C27: sort_by_amount orders the records by amount with a missing amount
\* taken as 0; sort_by_vendor and sort_by_category order them by the
\* case-folded value with a missing value taken as the empty string;
\* sort_by_date puts every record without the date before all dated records
\* when ascending and after all of them when descending, the dated ones in
\* date order; this for every algorithm choice
C27_MissingValueKeys ==
    /\ last.op = "sort_by_amount" =>
          /\ IsPermutation(result, last.input)
          /\ \A i, j \in DOMAIN result :
                i < j => IF last.reverse
                         THEN AmountKey(result[i]) >= AmountKey(result[j])
                         ELSE AmountKey(result[i]) <= AmountKey(result[j])
    /\ last.op \in {"sort_by_vendor", "sort_by_category"} =>
          /\ IsPermutation(result, last.input)
          /\ \A i, j \in DOMAIN result :
                i < j => IF last.reverse
                         THEN KeyLe(TextKey(result[j], last.kf),
                                    TextKey(result[i], last.kf))
                         ELSE KeyLe(TextKey(result[i], last.kf),
                                    TextKey(result[j], last.kf))
    /\ last.op = "sort_by_date" =>
          /\ IsPermutation(result, last.input)
          /\ \A i, j \in DOMAIN result :
                (IsNone(result[i][last.kf]) /\ ~IsNone(result[j][last.kf]))
                    => IF last.reverse THEN j < i ELSE i < j
          /\ \A i, j \in DOMAIN result :
                (i < j /\ ~IsNone(result[i][last.kf])
                       /\ ~IsNone(result[j][last.kf]))
                    => IF last.reverse
                       THEN Val(result[i][last.kf]) >= Val(result[j][last.kf])
                       ELSE Val(result[i][last.kf]) <= Val(result[j][last.kf])

\* three records, the first without a transaction date, have been sorted by
\* date, latest first, with quicksort: the undated record is last
C27_Witness ==
    /\ last.op = "sort_by_date"
    /\ last.kf = "transaction_date"
    /\ last.reverse
    /\ last.algorithm = "quicksort"
    /\ Len(last.input) = 3
    /\ IsNone(last.input[1].transaction_date)
    /\ Len(result) = 3
    /\ result[3] = last.input[1]

\* the keys of a list rise, or fall, from each record to the next
Rising(l, kf) ==
    \A i \in 1..(Len(l) - 1) : KeyLt(key_func(kf, l[i]), key_func(kf, l[i + 1]))
Falling(l, kf) ==
    \A i \in 1..(Len(l) - 1) : KeyLt(key_func(kf, l[i + 1]), key_func(kf, l[i]))

----------------------------------------------------------------------------
(* The search engine driven by a caller: one SearchAlgorithms instance over
   the table, which the handlers change *)

Indexes ==
    [vendor_index |-> vendor_index, category_index |-> category_index,
     keyword_index |-> keyword_index]

engineVars ==
    <<vendor_index, category_index, keyword_index, index_db, refreshed, refresh>>

\* SearchAlgorithms(db): __init__ builds the indexes from the table
SearchInit ==
    /\ db \in Tables
    /\ \E ix \in {build_search_indexes(db)} :
          /\ vendor_index = ix.vendor_index
          /\ category_index = ix.category_index
          /\ keyword_index = ix.keyword_index
    /\ index_db = db
    /\ refreshed = {}
    /\ refresh = NoRefresh
    /\ changes = 0
    /\ query = NoQuery
    /\ search_result = <<>>
    /\ SortIdle
    /\ RequestIdle
    /\ CallIdle

\* a search call returns `rows` to its caller
Searched(op, field, value, filters, rows) ==
    /\ search_result' = rows
    /\ query' = [op |-> op, field |-> field, value |-> value, filters |-> filters]
    /\ UNCHANGED <<db, engineVars, changes, sortVars, requestVars, callVars>>

\* a handler has committed `rows` as the table
Committed(rows) ==
    /\ db' = rows
    /\ changes' = changes + 1
    /\ query' = NoQuery
    /\ search_result' = <<>>
    /\ UNCHANGED <<engineVars, sortVars, requestVars, callVars>>

FilterInputs ==
    { Filters(vendor, category, amounts[1], amounts[2], dates[1], dates[2],
              keyword) :
        vendor \in {None, T(<<>>), T(<<"E","A">>), T(<<"_">>)},
        category \in {None, T(<<"b","a","r">>)},
        amounts \in {<<None, None>>, <<Some(0), None>>, <<None, Some(10)>>,
                     <<Some(10), Some(10)>>},
        dates \in {<<None, None>>, <<Some(2), None>>, <<None, Some(1)>>},
        keyword \in {None, T(<<"a","_">>)} }

MultiCriteriaSearch ==
    \E filters \in FilterInputs :
        Searched("multi_criteria_search", "", <<>>, filters,
                 multi_criteria_search(db, filters))

SearchNext == MultiCriteriaSearch

SearchSpec == SearchInit /\ [][SearchNext]_vars

HashValues == {<<>>, <<"T","E","A">>, <<"b","a","r">>}
\* the (field, value) arguments of hash_search: the three fields it supports
\* and one it does not
HashArgs ==
    { <<"vendor", <<>>>>, <<"vendor", <<"T","E","A">>>>,
      <<"category", <<>>>>, <<"category", <<"b","a","r">>>>,
      <<"keyword", <<"T","E","A">>>>, <<"keyword", <<"b","a","r">>>>,
      <<"amount", <<"T","E","A">>>> }

HashSearch ==
    \E args \in HashArgs :
        Searched("hash_search", args[1], args[2], NoFilters,
                 hash_search(Indexes, db, args[1], args[2]))

\* the keywords of keyword_search: those and one that holds a LIKE wildcard
Keywords == HashValues \cup {<<"a","_">>}

KeywordSearch ==
    \E keyword \in Keywords :
        Searched("keyword_search", "", keyword, NoFilters,
                 keyword_search(Indexes, db, keyword))

UploadReceipt ==
    /\ changes < MaxChanges
    /\ Len(db) < MaxRows
    /\ \E parsed \in Uploads : Committed(insert_receipt(db, parsed, Now))

UpdateReceipt ==
    /\ changes < MaxChanges
    /\ \E i \in DOMAIN db, upd \in Updates :
          Committed(set_fields(db, db[i].id, upd))

DeleteReceipt ==
    /\ changes < MaxChanges
    /\ \E i \in DOMAIN db : Committed(delete_row(db, db[i].id))

\* refresh_indexes, run by a caller that makes one call at a time
RefreshIndexes ==
    /\ refresh.pc = "idle"
    /\ \E ix \in {build_search_indexes(db)} :
          /\ vendor_index' = ix.vendor_index
          /\ category_index' = ix.category_index
          /\ keyword_index' = ix.keyword_index
    /\ index_db' = db
    /\ refreshed' = RowKeys(db) \ RowKeys(index_db)
    /\ query' = NoQuery
    /\ search_result' = <<>>
    /\ UNCHANGED <<db, refresh, changes, sortVars, requestVars, callVars>>

IndexNext ==
    \/ UploadReceipt
    \/ UpdateReceipt
    \/ DeleteReceipt
    \/ RefreshIndexes
    \/ HashSearch

IndexSpec == SearchInit /\ [][IndexNext]_vars

\* refresh_indexes on one thread while another thread searches: the three
\* assignments of empty dicts and the read of the table
RefreshBegin ==
    /\ refresh.pc = "idle"
    /\ vendor_index' = <<>>
    /\ category_index' = <<>>
    /\ keyword_index' = <<>>
    /\ refresh' = [pc |-> "building", read |-> db, todo |-> db]
    /\ query' = NoQuery
    /\ search_result' = <<>>
    /\ UNCHANGED <<db, index_db, refreshed, changes, sortVars, requestVars, callVars>>

\* one iteration of `for receipt in receipts`
RefreshIndexReceipt ==
    /\ refresh.pc = "building"
    /\ refresh.todo # <<>>
    /\ \E ix \in {index_receipt(Indexes, Head(refresh.todo))} :
          /\ vendor_index' = ix.vendor_index
          /\ category_index' = ix.category_index
          /\ keyword_index' = ix.keyword_index
    /\ refresh' = [refresh EXCEPT !.todo = Tail(@)]
    /\ query' = NoQuery
    /\ search_result' = <<>>
    /\ UNCHANGED <<db, index_db, refreshed, changes, sortVars, requestVars, callVars>>

\* the loop is over: refresh_indexes returns
RefreshReturn ==
    /\ refresh.pc = "building"
    /\ refresh.todo = <<>>
    /\ refresh' = NoRefresh
    /\ index_db' = refresh.read
    /\ refreshed' = RowKeys(refresh.read) \ RowKeys(index_db)
    /\ query' = NoQuery
    /\ search_result' = <<>>
    /\ UNCHANGED <<db, vendor_index, category_index, keyword_index, changes,
                   sortVars, requestVars, callVars>>

RaceNext ==
    \/ UploadReceipt
    \/ DeleteReceipt
    \/ RefreshBegin
    \/ RefreshIndexReceipt
    \/ RefreshReturn
    \/ HashSearch
    \/ KeywordSearch

RaceSpec == SearchInit /\ [][RaceNext]_vars

----------------------------------------------------------------------------
(* Properties of the search engine *)

\* s contains sub as a run of consecutive characters
Contains(s, sub) ==
    \E i \in 0..(Len(s) - Len(sub)) : SubSeq(s, i + 1, i + Len(sub)) = sub
\* a column holds a text that contains txt, letter case aside
ContainsText(column, txt) ==
    ~IsNone(column) /\ Contains(Lower(Val(column)), Lower(txt))
\* a text filter restricts once it is given with a text in it
Given(o) == ~IsNone(o) /\ Val(o) # <<>>

\* record r satisfies every filter that f supplies
Satisfies(r, f) ==
    /\ Given(f.vendor) => ContainsText(r.vendor, Val(f.vendor))
    /\ Given(f.category) => ContainsText(r.category, Val(f.category))
    /\ ~IsNone(f.min_amount) =>
          ~IsNone(r.amount) /\ Val(r.amount) >= Val(f.min_amount)
    /\ ~IsNone(f.max_amount) =>
          ~IsNone(r.amount) /\ Val(r.amount) <= Val(f.max_amount)
    /\ ~IsNone(f.start_date) =>
          ~IsNone(r.transaction_date) /\ Val(r.transaction_date) >= Val(f.start_date)
    /\ ~IsNone(f.end_date) =>
          ~IsNone(r.transaction_date) /\ Val(r.transaction_date) <= Val(f.end_date)
    /\ Given(f.keyword) =>
          \/ ContainsText(r.vendor, Val(f.keyword))
          \/ ContainsText(r.raw_text, Val(f.keyword))
          \/ ContainsText(r.category, Val(f.keyword))

\* C4: multi_criteria_search returns exactly the stored records that satisfy
\* every supplied filter at once (vendor, category and keyword by containment
\* of the given text, amount and date by the given limits); with no filter it
\* returns every record, and taking a filter away never loses a record.
C4_ExactlyTheMatching ==
    query.op = "multi_criteria_search" =>
        /\ search_result = SelectSeq(db, LAMBDA r : Satisfies(r, query.filters))
        /\ query.filters = NoFilters => search_result = db
        /\ \A k \in DOMAIN query.filters :
              Range(search_result) \subseteq
                  Range(multi_criteria_search(db, [query.filters EXCEPT ![k] = None]))

\* hash_search(field, value) is asked for record r's own field
Matches(r, field, value) ==
    CASE field = "vendor" ->
            Truthy(r.vendor) /\ Lower(Val(r.vendor)) = Lower(value)
      [] field = "category" ->
            Truthy(r.category) /\ Lower(Val(r.category)) = Lower(value)
      [] field = "keyword" ->
            /\ Truthy(r.raw_text)
            /\ Lower(value) \in extract_keywords(Val(r.raw_text))
      [] OTHER -> FALSE

\* the same, with the vendor or category only required to be present
MatchesAnyText(r, field, value) ==
    CASE field = "vendor" ->
            ~IsNone(r.vendor) /\ Lower(Val(r.vendor)) = Lower(value)
      [] field = "category" ->
            ~IsNone(r.category) /\ Lower(Val(r.category)) = Lower(value)
      [] OTHER -> Matches(r, field, value)

\* the ids an index of the three holds under the lower-cased value
IndexedUnder(field, value) ==
    LET ix == CASE field = "vendor" -> vendor_index
                [] field = "category" -> category_index
                [] field = "keyword" -> keyword_index
                [] OTHER -> <<>>
    IN  IF Lower(value) \in DOMAIN ix THEN Range(ix[Lower(value)]) ELSE {}

\* C5 (amended): with an index built from the current collection,
\* hash_search(field, value) returns exactly the records indexed under the
\* lower-cased value; for vendor and category these are the records whose
\* field is not empty and, lower-cased, equals the lower-cased value, for
\* keyword the records whose raw_text has the lower-cased value as a keyword;
\* a value absent from the index and a field other than the three give the
\* empty result.
C5_HashSearchExact ==
    (query.op = "hash_search" /\ index_db = db) =>
        /\ search_result =
              SelectSeq(db, LAMBDA r : r.id \in IndexedUnder(query.field, query.value))
        /\ search_result =
              SelectSeq(db, LAMBDA r : Matches(r, query.field, query.value))
        /\ query.field \notin {"vendor", "category", "keyword"} =>
              search_result = <<>>

\* a refreshed index answers a vendor search in capitals with two records
C5_Witness ==
    /\ query.op = "hash_search"
    /\ index_db = db
    /\ refreshed # {}
    /\ query.field = "vendor"
    /\ query.value = <<"T","E","A">>
    /\ Len(search_result) > 1

\* C5 as stated: for vendor and category hash_search returns the records whose
\* field, lower-cased, equals the lower-cased value.
C5_AsStated ==
    (query.op = "hash_search" /\ index_db = db) =>
        search_result =
            SelectSeq(db, LAMBDA r : MatchesAnyText(r, query.field, query.value))

\* value is record r's vendor, its category or a keyword of its raw_text
IsOwn(r, field, value) ==
    CASE field = "vendor" -> r.vendor = Some(value)
      [] field = "category" -> r.category = Some(value)
      [] field = "keyword" ->
            ~IsNone(r.raw_text) /\ value \in extract_keywords(Val(r.raw_text))
      [] OTHER -> FALSE

\* C6: hash_search never returns a record that was added to storage after the
\* index was built, until refresh_indexes is called; and once refresh_indexes
\* has completed, hash_search returns such a record for its vendor, for its
\* category and for every keyword of its raw_text.
C6_NewRecordsOnlyAfterRefresh ==
    query.op = "hash_search" =>
        /\ \A i \in DOMAIN search_result :
              RowKey(search_result[i]) \in RowKeys(index_db)
        /\ index_db = db =>
              \A i \in DOMAIN db :
                  (RowKey(db[i]) \in refreshed
                   /\ IsOwn(db[i], query.field, query.value))
                      => db[i] \in Range(search_result)

\* what the search that has just returned returns from indexes ix
LookupWith(ix) ==
    IF query.op = "hash_search"
    THEN hash_search(ix, db, query.field, query.value)
    ELSE keyword_search(ix, db, query.value)

\* C7: a hash_search or keyword_search that runs while refresh_indexes is
\* running sees the complete index from before the refresh or the complete
\* index from after it, never one in between.
C7_NeverHalfBuilt ==
    (query.op \in {"hash_search", "keyword_search"} /\ refresh.pc # "idle") =>
        search_result \in {LookupWith(build_search_indexes(index_db)),
                           LookupWith(build_search_indexes(refresh.read))}

----------------------------------------------------------------------------
(* The lookups of the search engine, each called on a table the handlers
   have left *)

\* the bodies of PUT requests: vendor emptied, and vendor given a name with
\* a parenthesis in it
LookupUpdates == Updates \cup { [vendor |-> T(<<"a","(">>)] }

\* the tables the uploads leave, and those with the first row updated
LookupTables ==
    Tables \cup {set_fields(rows, 1, upd) : rows \in Tables \ {<<>>},
                                             upd \in LookupUpdates}

LookupInit ==
    /\ db \in LookupTables
    /\ \E ix \in {build_search_indexes(db)} :
          /\ vendor_index = ix.vendor_index
          /\ category_index = ix.category_index
          /\ keyword_index = ix.keyword_index
    /\ index_db = db
    /\ refreshed = {}
    /\ refresh = NoRefresh
    /\ changes = 0
    /\ query = NoQuery
    /\ search_result = <<>>
    /\ SortIdle
    /\ RequestIdle
    /\ CallIdle

\* the (field, value) arguments of linear_search: text in another case, the
\* empty string, amounts as float, int and text, an id, an unknown field
LinearArgs ==
    { <<"vendor", PyStr(<<"T","E","A">>)>>, <<"vendor", PyStr(<<>>)>>,
      <<"category", PyStr(<<"b","a","r">>)>>,
      <<"amount", PyFloat(0)>>, <<"amount", PyFloat(10)>>,
      <<"amount", PyInt(10)>>, <<"amount", PyStr(<<"1","0",".","0">>)>>,
      <<"id", PyInt(1)>>, <<"nosuch", PyStr(<<"T","E","A">>)>> }

LinearSearch ==
    \E args \in LinearArgs :
        Searched("linear_search", args[1], args[2], NoFilters,
                 linear_search(db, args[1], args[2]))

\* the (field, min_value, max_value) arguments of range_search: the three
\* columns it filters on and one it does not
RangeArgs ==
    { <<"amount", 0, 10>>, <<"amount", 10, 30>>, <<"amount", 30, 10>>,
      <<"transaction_date", 1, 1>>, <<"upload_date", 2, 2>>,
      <<"vendor", 0, 10>> }

RangeSearch ==
    \E args \in RangeArgs :
        Searched("range_search", args[1], <<args[2], args[3]>>, NoFilters,
                 range_search(db, args[1], args[2], args[3]))

\* the (field, pattern) arguments of pattern_search: valid patterns, among
\* them the empty one and one over the text of an amount, and invalid ones
PatternArgs ==
    { <<"vendor", <<"t",".","a">>>>, <<"raw_text", <<"E","*","a"," ">>>>,
      <<"vendor", <<>>>>, <<"amount", <<"0">>>>, <<"nosuch", <<"e">>>>,
      <<"vendor", <<"A","(">>>>, <<"nosuch", <<"A","(">>>>,
      <<"category", <<"*","a">>>>, <<"raw_text", <<"a","*","*">>>> }

PatternSearch ==
    \E args \in PatternArgs :
        Searched("pattern_search", args[1], args[2], NoFilters,
                 pattern_search(Indexes, db, args[1], args[2]))

\* thresholds: 0.0, 0.5, the default 0.8, 1.0 and 1.5.  For these the test
\* 1.0 - distance / max_len >= threshold on floats agrees with the test on
\* fractions
Thresholds == {Frac(0, 10), Frac(5, 10), Frac(8, 10), Frac(10, 10), Frac(15, 10)}

\* the (field, value) arguments of fuzzy_search
FuzzyArgs ==
    { <<"vendor", <<"T","e","a">>>>, <<"vendor", <<"t","e","e">>>>,
      <<"vendor", <<>>>>, <<"category", <<"c","a","r">>>>,
      <<"amount", <<"0",".","0">>>>, <<"amount", <<"1","0">>>>,
      <<"nosuch", <<"t","e","a">>>> }

FuzzySearch ==
    \E args \in FuzzyArgs, threshold \in Thresholds :
        Searched("fuzzy_search", args[1], <<args[2], threshold>>, NoFilters,
                 fuzzy_search(db, args[1], args[2], threshold))

LookupNext ==
    \/ LinearSearch
    \/ FuzzySearch
    \/ PatternSearch
    \/ KeywordSearch
    \/ HashSearch
    \/ RangeSearch

LookupSpec == LookupInit /\ [][LookupNext]_vars

\* C11: linear_search(field, value) returns exactly the records that have the
\* named field and whose field value, as a string, equals the string form of
\* value ignoring case, a field value of 0 or "" included (a NULL column has
\* no value to compare)
C11_LinearSearchExact ==
    query.op = "linear_search" =>
        search_result =
            SelectSeq(db, LAMBDA r :
                /\ hasattr(r, query.field)
                /\ getattr(r, query.field) # PyNone
                /\ Lower(py_str(getattr(r, query.field)))
                      = Lower(py_str(query.value)))

Ids(rows) == {rows[i].id : i \in DOMAIN rows}

\* C12: keyword_search(keyword) returns the union of the records the keyword
\* hash index gives and the records whose vendor, raw_text or category
\* contains the keyword ignoring case, and no record id is in the result
\* more than once
C12_KeywordUnion ==
    query.op = "keyword_search" =>
        /\ Ids(search_result) =
              Ids(hash_search(Indexes, db, "keyword", Lower(query.value)))
                \cup {r.id : r \in {x \in Range(db) :
                          \/ ContainsText(x.vendor, query.value)
                          \/ ContainsText(x.raw_text, query.value)
                          \/ ContainsText(x.category, query.value)}}
        /\ \A i, j \in DOMAIN search_result :
              search_result[i].id = search_result[j].id => i = j
        /\ Range(search_result) \subseteq Range(db)

\* the searches that take a field name, and the fields each of them knows
FieldSearches ==
    {"linear_search", "pattern_search", "fuzzy_search", "hash_search",
     "range_search"}

KnownField(op, field) ==
    CASE op = "hash_search" -> field \in {"vendor", "category", "keyword"}
      [] op = "range_search" -> field \in RangeFields
      [] OTHER -> field \in DOMAIN Receipt(1, None, None, None, None, None, None)

\* C13: a search that takes a field name, given a field it does not know,
\* skips every record: the result is empty
C13_UnknownFieldEmpty ==
    (query.op \in FieldSearches /\ ~KnownField(query.op, query.field)) =>
        search_result = <<>>

\* C14: pattern_search(field, pattern) with a pattern that is not a valid
\* regular expression gives, for any field name, what keyword_search(pattern)
\* gives; with a valid pattern it gives the records that have the field with
\* a non-empty value (not NULL, and its text not empty) that the pattern
\* matches ignoring case
C14_PatternSearch ==
    query.op = "pattern_search" =>
        IF re_valid(query.value)
        THEN search_result =
                SelectSeq(db, LAMBDA r :
                    /\ hasattr(r, query.field)
                    /\ getattr(r, query.field) # PyNone
                    /\ py_str(getattr(r, query.field)) # <<>>
                    /\ re_search(py_str(getattr(r, query.field)), query.value))
        ELSE search_result = keyword_search(Indexes, db, query.value)

\* the similarity fuzzy_search(field, value, ...) scores a record with
SimilarityOf(r, field, value) ==
    calculate_similarity(Lower(py_str(getattr(r, field))), Lower(value))

\* the place of a row in the scan of the table
ScanPos(r) == CHOOSE i \in DOMAIN db : db[i] = r

\* C15: fuzzy_search(field, value, threshold) returns exactly the records
\* whose field value has similarity >= threshold to value, by similarity
\* non-increasing and, for equal similarities, in scan order; a record whose
\* field equals value is returned at threshold 1.0; a threshold above 1.0
\* gives the empty result
C15_FuzzySearch ==
    query.op = "fuzzy_search" =>
        LET field == query.field
            value == query.value[1]
            threshold == query.value[2]
        IN  /\ Range(search_result) =
                  {r \in Range(db) :
                      /\ hasattr(r, field)
                      /\ getattr(r, field) # PyNone
                      /\ FracGe(SimilarityOf(r, field, value), threshold)}
            /\ \A i, j \in DOMAIN search_result :
                  i < j =>
                    /\ FracGe(SimilarityOf(search_result[i], field, value),
                              SimilarityOf(search_result[j], field, value))
                    /\ FracEq(SimilarityOf(search_result[i], field, value),
                              SimilarityOf(search_result[j], field, value))
                          => ScanPos(search_result[i]) < ScanPos(search_result[j])
            /\ FracEq(threshold, Frac(1, 1)) =>
                  \A r \in Range(db) :
                      (hasattr(r, field) /\ getattr(r, field) = PyStr(value))
                          => r \in Range(search_result)
            /\ ~FracGe(Frac(1, 1), threshold) => search_result = <<>>

----------------------------------------------------------------------------
(* hash_search against linear_search and against storage, over IndexSpec *)

\* C29: right after the indexes were built or refreshed, with storage as it
\* was then, hash_search(field, value) and linear_search(field, value) return
\* the same records for field vendor or category and any string value.
C29_HashEqualsLinear ==
    (/\ query.op = "hash_search"
     /\ index_db = db
     /\ query.field \in {"vendor", "category"}) =>
        LET scanned == linear_search(db, query.field, PyStr(query.value))
        IN  /\ Range(search_result) = Range(scanned)
            /\ Ids(search_result) = Ids(scanned)

C29_Witness ==
    /\ query.op = "hash_search"
    /\ index_db = db
    /\ refreshed # {}
    /\ query.field = "category"
    /\ query.value = <<"b","a","r">>
    /\ Len(search_result) = 1
    /\ Len(db) > 1
    /\ search_result[1].category = T(<<"B","a","r">>)

\* the ids of the records that were in storage under `value` when the indexes
\* were last built
BuiltIds(field, value) ==
    {index_db[j].id : j \in {k \in DOMAIN index_db :
                                Matches(index_db[k], field, value)}}

\* C30: whatever was added, deleted or updated in storage since the indexes
\* were built, hash_search(field, v) returns exactly the rows now in storage
\* whose id was indexed under v at build time, as they are now: no deleted
\* record, and a record that is still there is returned under the vendor or
\* category it had at build time and under no other.
C30_StaleIndexReads ==
    (/\ query.op = "hash_search"
     /\ query.field \in {"vendor", "category", "keyword"}) =>
        /\ search_result =
              SelectSeq(db, LAMBDA r :
                  r.id \in BuiltIds(query.field, query.value))
        /\ RowKeys(search_result) \subseteq RowKeys(db)
        /\ \A i \in DOMAIN db, j \in DOMAIN index_db :
              RowKey(db[i]) = RowKey(index_db[j]) =>
                  (db[i] \in Range(search_result)
                      <=> Matches(index_db[j], query.field, query.value))

\* a record whose vendor was changed since the build is returned under its old
\* vendor with its new one, and a record deleted since is not
C30_Witness ==
    /\ query.op = "hash_search"
    /\ query.field = "vendor"
    /\ query.value = <<"T","E","A">>
    /\ \E j \in DOMAIN index_db :
          /\ Matches(index_db[j], "vendor", query.value)
          /\ RowKey(index_db[j]) \notin RowKeys(db)
          /\ index_db[j].id \notin Ids(db)
    /\ \E i \in DOMAIN search_result, j \in DOMAIN index_db :
          /\ RowKey(search_result[i]) = RowKey(index_db[j])
          /\ search_result[i].vendor = T(<<>>)
          /\ Matches(index_db[j], "vendor", query.value)

----------------------------------------------------------------------------
(* _calculate_similarity applied to two strings *)

\* the strings of at most MaxStr characters over two letters
Words == UNION {[1..n -> {"a", "b"}] : n \in 0..MaxStr}

SimilarityInit ==
    /\ called = "none"
    /\ arguments \in Words \X Words
    /\ returned = <<>>
    /\ SortIdle
    /\ SearchIdle
    /\ RequestIdle

CalculateSimilarity ==
    /\ called = "none"
    /\ called' = "_calculate_similarity"
    /\ returned' = calculate_similarity(arguments[1], arguments[2])
    /\ UNCHANGED <<arguments, sortVars, searchVars, requestVars>>

SimilarityNext == CalculateSimilarity

SimilaritySpec == SimilarityInit /\ [][SimilarityNext]_vars

\* C16: the similarity of two empty strings is 1.0, and the similarity of an
\* empty string and a non-empty string is 0.0
C16_EmptyStrings ==
    called = "_calculate_similarity" =>
        /\ (arguments[1] = <<>> /\ arguments[2] = <<>>)
              => FracEq(returned, Frac(1, 1))
        /\ ((arguments[1] = <<>>) # (arguments[2] = <<>>))
              => FracEq(returned, Frac(0, 1))

RECURSIVE EditDistance(_, _)
\* the Levenshtein distance by its recurrence: the least number of
\* insertions, deletions and substitutions, each of cost 1, that turn s into t
EditDistance(s, t) ==
    IF s = <<>> THEN Len(t)
    ELSE IF t = <<>> THEN Len(s)
    ELSE IF Head(s) = Head(t) THEN EditDistance(Tail(s), Tail(t))
    ELSE 1 + Min3(EditDistance(Tail(s), t), EditDistance(s, Tail(t)),
                  EditDistance(Tail(s), Tail(t)))

\* C17: for non-empty s and t, _calculate_similarity(s, t) is
\* 1 - d(s, t) / max(len(s), len(t)) with d the Levenshtein distance; it
\* lies in [0, 1], is the same for (t, s), and is 1.0 exactly when s = t
C17_SimilarityFormula ==
    (called = "_calculate_similarity"
        /\ arguments[1] # <<>> /\ arguments[2] # <<>>) =>
        LET s == arguments[1]
            t == arguments[2]
            max_len == IF Len(s) >= Len(t) THEN Len(s) ELSE Len(t)
        IN  /\ returned = Frac(max_len - EditDistance(s, t), max_len)
            /\ FracGe(returned, Frac(0, 1)) /\ FracGe(Frac(1, 1), returned)
            /\ returned = calculate_similarity(t, s)
            /\ FracEq(returned, Frac(1, 1)) <=> s = t

\* the similarity of "ab" and "b", one deletion apart, has been computed
C17_Witness ==
    /\ called = "_calculate_similarity"
    /\ arguments = << <<"a","b">>, <<"b">> >>
    /\ returned = Frac(1, 2)

----------------------------------------------------------------------------
(* AggregationAlgorithms.  An amount figure of a result is its number of
   hundredths (round(x, 2) of 3.333 is 333), a percentage likewise *)

\* round(n / d, 2) in hundredths, for n >= 0 and d > 0; n / d is never half
\* way between two hundredths for d < 8
Round2(n, d) == (200 * n + d) \div (2 * d)

RECURSIVE SumSeq(_)
SumSeq(l) == IF l = <<>> THEN 0 ELSE Head(l) + SumSeq(Tail(l))

MinOf(l) == CHOOSE x \in Range(l) : \A y \in Range(l) : x <= y
MaxOf(l) == CHOOSE x \in Range(l) : \A y \in Range(l) : x >= y

\* [r.amount for r in receipts if r.amount is not None]
amounts_with_missing(rs) ==
    [i \in DOMAIN rs |-> IF IsNone(rs[i].amount) THEN 0 ELSE Val(rs[i].amount)]
amounts_of(rs) ==
    LET kept == SelectSeq(rs, LAMBDA r : ~IsNone(r.amount))
    IN  [i \in DOMAIN kept |-> Val(kept[i].amount)]

RECURSIVE sorted_numbers(_)
\* sorted(amounts)
sorted_numbers(l) ==
    IF l = <<>> THEN <<>>
    ELSE LET x == l[Len(l)]
             done == sorted_numbers(SubSeq(l, 1, Len(l) - 1))
             k == Cardinality({i \in DOMAIN done : done[i] <= x})
         IN  SubSeq(done, 1, k) \o <<x>> \o SubSeq(done, k + 1, Len(done))

\* statistics.median of sorted data, as the fraction <<n, d>>: the middle
\* value, or the mean of the two middle values
median(data) ==
    LET n == Len(data)
    IN  IF n % 2 = 1 THEN Frac(data[(n \div 2) + 1], 1)
        ELSE Frac(data[n \div 2] + data[(n \div 2) + 1], 2)

\* round(statistics.stdev(amounts), 2) in hundredths: the sample standard
\* deviation is the square root of N / D, N = n * sum(x^2) - sum(x)^2 and
\* D = n * (n - 1); s is the hundredth nearest to 100 * sqrt(N / D)
stdev(amounts) ==
    LET n == Len(amounts)
        N == n * SumSeq([i \in DOMAIN amounts |-> amounts[i] * amounts[i]])
                - SumSeq(amounts) * SumSeq(amounts)
        D == n * (n - 1)
    IN  CHOOSE s \in 0..(100 * (MaxOf(amounts) - MinOf(amounts))) :
            /\ s = 0 \/ (2 * s - 1) * (2 * s - 1) * D <= 40000 * N
            /\ 40000 * N < (2 * s + 1) * (2 * s + 1) * D

\* the keys of a Counter, in the order they were first counted
counter_keys(items) ==
    LET first == SelectSeq([i \in DOMAIN items |-> i],
                           LAMBDA i : \A j \in 1..(i - 1) : items[j] # items[i])
    IN  [k \in DOMAIN first |-> items[first[k]]]

counter_count(items, key) == Cardinality({i \in DOMAIN items : items[i] = key})

\* _calculate_mode: value is the mode, or the list of modes when there are
\* several; a single value v is <<v>>
calculate_mode(amounts) ==
    IF amounts = <<>> THEN [value |-> None, frequency |-> 0]
    ELSE LET rounded_amounts == [i \in DOMAIN amounts |-> Round2(amounts[i], 1)]
             keys == counter_keys(rounded_amounts)
             max_frequency ==
                MaxOf([k \in DOMAIN keys |-> counter_count(rounded_amounts, keys[k])])
             modes == SelectSeq(keys, LAMBDA a :
                        counter_count(rounded_amounts, a) = max_frequency)
         IN  [value |-> IF Len(modes) = 1 THEN Some(modes[1]) ELSE modes,
              frequency |-> max_frequency,
              is_multimodal |-> Len(modes) > 1]

empty_stats_counting(rs) ==
    [total_receipts |-> Len(rs), receipts_with_amounts |-> 0,
     total_amount |-> 0, average_amount |-> 0, median_amount |-> 0,
     mode_amount |-> [value |-> None, frequency |-> 0],
     min_amount |-> 0, max_amount |-> 0, amount_range |-> 0,
     standard_deviation |-> 0]
\* _empty_stats(), which is not told the records
empty_stats(rs) ==
    [total_receipts |-> 0, receipts_with_amounts |-> 0,
     total_amount |-> 0, average_amount |-> 0, median_amount |-> 0,
     mode_amount |-> [value |-> None, frequency |-> 0],
     min_amount |-> 0, max_amount |-> 0, amount_range |-> 0,
     standard_deviation |-> 0]

calculate_basic_stats(rs) ==
    IF rs = <<>> THEN empty_stats(rs)
    ELSE LET amounts == amounts_of(rs)
             total_sum == SumSeq(amounts)
             count == Len(amounts)
             med == median(sorted_numbers(amounts))
         IN  IF amounts = <<>> THEN empty_stats(rs)
             ELSE [total_receipts |-> Len(rs),
                   receipts_with_amounts |-> count,
                   total_amount |-> Round2(total_sum, 1),
                   average_amount |-> Round2(total_sum, count),
                   median_amount |-> Round2(med[1], med[2]),
                   mode_amount |-> calculate_mode(amounts),
                   min_amount |-> Round2(MinOf(amounts), 1),
                   max_amount |-> Round2(MaxOf(amounts), 1),
                   amount_range |-> Round2(MaxOf(amounts) - MinOf(amounts), 1),
                   standard_deviation |->
                        IF count > 1 THEN stdev(amounts) ELSE 0]

Unknown == <<"U","n","k","n","o","w","n">>
Uncategorized == <<"U","n","c","a","t","e","g","o","r","i","z","e","d">>

\* `receipt.vendor or 'Unknown'`: None and "" give the sentinel
label_if_none(column, sentinel) ==
    IF IsNone(column) THEN sentinel ELSE Val(column)
label_or(column, sentinel) == IF Truthy(column) THEN Val(column) ELSE sentinel

\* Counter.most_common(): by count, largest first; the sort is stable, so
\* equal counts stay in the order the keys were first counted
insert_by_count(done, x) ==
    LET k == Cardinality({i \in DOMAIN done : done[i][2] >= x[2]})
    IN  SubSeq(done, 1, k) \o <<x>> \o SubSeq(done, k + 1, Len(done))

RECURSIVE most_common_sort(_)
most_common_sort(pairs) ==
    IF pairs = <<>> THEN <<>>
    ELSE insert_by_count(most_common_sort(SubSeq(pairs, 1, Len(pairs) - 1)),
                         pairs[Len(pairs)])

most_common(items) ==
    LET keys == counter_keys(items)
    IN  most_common_sort([k \in DOMAIN keys |->
                            <<keys[k], counter_count(items, keys[k])>>])

\* the distribution of a column: label is the entry's 'vendor' or 'category'
frequency_distribution(rs, field, sentinel) ==
    IF rs = <<>> THEN <<>>
    ELSE LET total_receipts == Len(rs)
             counted == most_common([i \in DOMAIN rs |->
                                        label_or(rs[i][field], sentinel)])
         IN  [k \in DOMAIN counted |->
                [label |-> counted[k][1],
                 count |-> counted[k][2],
                 percentage |-> Round2(counted[k][2] * 100, total_receipts)]]

vendor_frequency_distribution(rs) == frequency_distribution(rs, "vendor", Unknown)
category_frequency_distribution(rs) ==
    frequency_distribution(rs, "category", Uncategorized)

\* Python truthiness of an optional amount: None and 0.0 are falsy
NonZero(amount) == ~IsNone(amount) /\ Val(amount) # 0

\* `receipt.amount or 0.0`
amount_or_zero(amount) == IF NonZero(amount) THEN Val(amount) ELSE 0

\* list.sort(key=lambda x: x['total_amount'], reverse=True): the sort is
\* stable, entries of equal total keep their order
insert_by_total(done, x) ==
    LET k == Cardinality({i \in DOMAIN done :
                            done[i].total_amount >= x.total_amount})
    IN  SubSeq(done, 1, k) \o <<x>> \o SubSeq(done, k + 1, Len(done))

keep_order(entries) == entries
RECURSIVE sort_by_total(_)
sort_by_total(entries) ==
    IF entries = <<>> THEN <<>>
    ELSE insert_by_total(sort_by_total(SubSeq(entries, 1, Len(entries) - 1)),
                         entries[Len(entries)])

\* top_vendors[:limit] for limit >= 0
first_n(l, limit) == SubSeq(l, 1, IF limit < Len(l) THEN limit ELSE Len(l))

\* top_vendors_by_amount: vendor_totals and vendor_counts keep their keys in
\* the order the vendors were first met
top_vendors_by_amount(rs, limit) ==
    IF rs = <<>> THEN <<>>
    ELSE LET vendors == [i \in DOMAIN rs |-> label_or(rs[i].vendor, Unknown)]
             keys == counter_keys(vendors)
             vendor_total(v) ==
                SumSeq([i \in DOMAIN rs |->
                          IF vendors[i] = v THEN amount_or_zero(rs[i].amount)
                          ELSE 0])
             top_vendors ==
                [k \in DOMAIN keys |->
                    [vendor |-> keys[k],
                     total_amount |-> Round2(vendor_total(keys[k]), 1),
                     transaction_count |-> counter_count(vendors, keys[k]),
                     average_amount |->
                        Round2(vendor_total(keys[k]),
                               counter_count(vendors, keys[k]))]]
         IN  first_n(sort_by_total(top_vendors), limit)

\* a transaction date is the number yyyymmdd, which orders as dates do
Date(y, m, d) == y * 10000 + m * 100 + d
year(date) == date \div 10000
month(date) == (date \div 100) % 100
day(date) == date % 100

\* `receipt.transaction_date and receipt.amount`: a record without a date,
\* without an amount or with the amount 0.0 is passed over
has_date_and_amount(r) == ~IsNone(r.transaction_date) /\ NonZero(r.amount)

\* f"{n:02d}"
two_digits(n) == IF n < 10 THEN <<"0">> \o Digits(n) ELSE Digits(n)

\* f"{date.year}-{date.month:02d}"
month_key(date) == Digits(year(date)) \o <<"-">> \o two_digits(month(date))

\* the order of str on keys made of digits, "-" and "Q"
key_code(c) == IF c = "-" THEN 0 ELSE Ord(c)
key_before(a, b) ==
    KeyLt([i \in DOMAIN a |-> key_code(a[i])], [i \in DOMAIN b |-> key_code(b[i])])

\* the keys of sorted(data.items()): each key once, in the order of str
sorted_keys(keys) ==
    LET S == Range(keys)
        place(k) == Cardinality({j \in S : key_before(j, k)}) + 1
    IN  [p \in 1..Cardinality(S) |-> CHOOSE k \in S : place(k) = p]

month_names ==
    << <<"J","a","n","u","a","r","y">>, <<"F","e","b","r","u","a","r","y">>,
       <<"M","a","r","c","h">>, <<"A","p","r","i","l">>, <<"M","a","y">>,
       <<"J","u","n","e">>, <<"J","u","l","y">>,
       <<"A","u","g","u","s","t">>,
       <<"S","e","p","t","e","m","b","e","r">>,
       <<"O","c","t","o","b","e","r">>,
       <<"N","o","v","e","m","b","e","r">>,
       <<"D","e","c","e","m","b","e","r">> >>

\* round(n / d) for n >= 0 and d > 0
RoundDiv(n, d) == (2 * n + d) \div (2 * d)

window == 3

\* _add_moving_averages: a series shorter than the window is left as it is;
\* moving_avg_amount is in hundredths and moving_avg_count, which is rounded
\* to one decimal, in tenths
add_moving_averages(trends) ==
    IF Len(trends) < window THEN trends
    ELSE [i \in DOMAIN trends |->
            LET start_idx == IF i - window + 1 > 1 THEN i - window + 1 ELSE 1
                window_data == SubSeq(trends, start_idx, i)
                n == Len(window_data)
            IN  IF n >= 2
                THEN trends[i] @@
                     [moving_avg_amount |->
                        RoundDiv(SumSeq([k \in 1..n |->
                                    window_data[k].total_amount]), n),
                      moving_avg_count |->
                        RoundDiv(10 * SumSeq([k \in 1..n |->
                                    window_data[k].transaction_count]), n)]
                ELSE trends[i] @@
                     [moving_avg_amount |-> trends[i].total_amount,
                      moving_avg_count |-> 10 * trends[i].transaction_count]]

\* monthly_spending_trends: year and month of an entry are read back from
\* its key, which gives those of the dates the key was made from
monthly_spending_trends(rs) ==
    IF rs = <<>> THEN <<>>
    ELSE LET dated == SelectSeq(rs, has_date_and_amount)
             keys == sorted_keys([i \in DOMAIN dated |->
                                    month_key(Val(dated[i].transaction_date))])
             of_month(k) ==
                SelectSeq(dated, LAMBDA r :
                            month_key(Val(r.transaction_date)) = k)
             trends ==
                [p \in DOMAIN keys |->
                    LET data == of_month(keys[p])
                        total == SumSeq([i \in DOMAIN data |-> Val(data[i].amount)])
                        date == Val(data[1].transaction_date)
                    IN  [month |-> keys[p],
                         month_name |-> month_names[month(date)] \o <<" ">>
                                            \o Digits(year(date)),
                         total_amount |-> Round2(total, 1),
                         transaction_count |-> Len(data),
                         average_amount |-> Round2(total, Len(data))]]
         IN  add_moving_averages(trends)

\* date.weekday(): Monday is 0; the day number of a date counts the days
\* from 0001-01-01, which was a Monday, as day 1
is_leap(y) == y % 4 = 0 /\ (y % 100 # 0 \/ y % 400 = 0)
days_before_month == <<0, 31, 59, 90, 120, 151, 181, 212, 243, 273, 304, 334>>
toordinal(date) ==
    LET y == year(date) - 1
    IN  y * 365 + (y \div 4) - (y \div 100) + (y \div 400)
            + days_before_month[month(date)]
            + (IF month(date) > 2 /\ is_leap(year(date)) THEN 1 ELSE 0)
            + day(date)
weekday(date) == (toordinal(date) + 6) % 7

day_names ==
    << <<"M","o","n","d","a","y">>, <<"T","u","e","s","d","a","y">>,
       <<"W","e","d","n","e","s","d","a","y">>,
       <<"T","h","u","r","s","d","a","y">>, <<"F","r","i","d","a","y">>,
       <<"S","a","t","u","r","d","a","y">>, <<"S","u","n","d","a","y">> >>

\* spending_by_day_of_week: no records give no entries, any records give
\* the seven entries; day_num is range(7)
spending_by_day_of_week(rs) ==
    IF rs = <<>> THEN <<>>
    ELSE LET dated == SelectSeq(rs, has_date_and_amount)
             of_day(day_num) ==
                SelectSeq(dated, LAMBDA r :
                            weekday(Val(r.transaction_date)) = day_num)
         IN  [n \in 1..7 |->
                LET data == of_day(n - 1)
                    total == SumSeq([i \in DOMAIN data |-> Val(data[i].amount)])
                IN  [day_of_week |-> day_names[n],
                     day_number |-> n - 1,
                     total_amount |-> Round2(total, 1),
                     transaction_count |-> Len(data),
                     average_amount |->
                        IF Len(data) > 0 THEN Round2(total, Len(data)) ELSE 0]]

\* (date.month - 1) // 3 + 1
quarter(date) == ((month(date) - 1) \div 3) + 1

\* f"{date.year}-Q{quarter}"
quarter_key(date) == Digits(year(date)) \o <<"-", "Q">> \o Digits(quarter(date))

\* round(n / d) for d > 0, n of either sign
RoundSigned(n, d) == IF n >= 0 THEN RoundDiv(n, d) ELSE 0 - RoundDiv(0 - n, d)

\* quarters.sort(key=lambda x: x['year']) of the entries of one quarter
\* number: the sort is stable
insert_by_year(done, x) ==
    LET k == Cardinality({i \in DOMAIN done : done[i].year <= x.year})
    IN  SubSeq(done, 1, k) \o <<x>> \o SubSeq(done, k + 1, Len(done))

RECURSIVE sort_by_year(_)
sort_by_year(entries) ==
    IF entries = <<>> THEN <<>>
    ELSE insert_by_year(sort_by_year(SubSeq(entries, 1, Len(entries) - 1)),
                        entries[Len(entries)])

\* _add_yoy_growth: an entry is compared with the one before it among the
\* entries of its quarter number; yoy_growth_rate is a number of hundredths
\* of a percent, None, or not set at all for the first of a quarter number
add_yoy_growth(quarterly_data) ==
    [p \in DOMAIN quarterly_data |->
        LET current == quarterly_data[p]
            quarters ==
                sort_by_year(SelectSeq(quarterly_data, LAMBDA q :
                    q.quarter_number = current.quarter_number))
            i == CHOOSE i \in DOMAIN quarters : quarters[i] = current
        IN  IF i = 1 THEN current
            ELSE LET previous == quarters[i - 1]
                 IN  IF previous.total_amount > 0
                     THEN current @@
                          [yoy_growth_rate |->
                            Some(RoundSigned(
                                10000 * (current.total_amount
                                            - previous.total_amount),
                                previous.total_amount))]
                     ELSE current @@ [yoy_growth_rate |-> None]]

\* quarterly_analysis: year and quarter number of an entry are read back
\* from its key
quarterly_analysis(rs) ==
    IF rs = <<>> THEN <<>>
    ELSE LET dated == SelectSeq(rs, has_date_and_amount)
             keys == sorted_keys([i \in DOMAIN dated |->
                                    quarter_key(Val(dated[i].transaction_date))])
             of_quarter(k) ==
                SelectSeq(dated, LAMBDA r :
                            quarter_key(Val(r.transaction_date)) = k)
             analysis ==
                [p \in DOMAIN keys |->
                    LET data == of_quarter(keys[p])
                        total == SumSeq([i \in DOMAIN data |-> Val(data[i].amount)])
                        date == Val(data[1].transaction_date)
                    IN  [quarter |-> keys[p],
                         year |-> year(date),
                         quarter_number |-> quarter(date),
                         total_amount |-> Round2(total, 1),
                         transaction_count |-> Len(data),
                         average_amount |-> Round2(total, Len(data))]]
         IN  add_yoy_growth(analysis)

----------------------------------------------------------------------------
(* Float arithmetic of amount_distribution_histogram.  A float is held
   exactly: it is the list of the limbs of LimbBits binary digits, least
   significant first, of its value times 2^(FracLimbs * LimbBits).  Every
   float met here is a whole number of that step and is below Base.  An
   operation gives the exact result rounded to the 53 significant binary
   digits of a float, ties to the even digit. *)

LimbBits == 12
FracLimbs == 5
Mantissa == 53

RECURSIVE Pow2(_)
Pow2(k) == IF k = 0 THEN 1 ELSE 2 * Pow2(k - 1)

Base == Pow2(LimbBits)
Limbs == FracLimbs + 1

\* float(n) of a whole amount 0 <= n < Base
float_of(n) == [k \in 1..Limbs |-> IF k = Limbs THEN n ELSE 0]

\* binary digit i of x, digit 1 being the least significant
bit(x, i) == (x[((i - 1) \div LimbBits) + 1] \div Pow2((i - 1) % LimbBits)) % 2

\* the number of significant binary digits
bit_length(x) ==
    IF \A k \in 1..Limbs : x[k] = 0 THEN 0
    ELSE LET top == CHOOSE k \in 1..Limbs :
                        x[k] # 0 /\ \A j \in (k + 1)..Limbs : x[j] = 0
         IN  (top - 1) * LimbBits
                + (CHOOSE b \in 1..LimbBits :
                        Pow2(b - 1) <= x[top] /\ x[top] < Pow2(b))

RECURSIVE add_from(_, _, _, _)
add_from(x, y, k, carry) ==
    IF k > Limbs THEN <<>>
    ELSE <<(x[k] + y[k] + carry) % Base>>
            \o add_from(x, y, k + 1, (x[k] + y[k] + carry) \div Base)

\* the exact sum
exact_add(x, y) == add_from(x, y, 1, 0)

RECURSIVE times_from(_, _, _, _)
times_from(x, n, k, carry) ==
    IF k > Limbs THEN <<>>
    ELSE <<(x[k] * n + carry) % Base>>
            \o times_from(x, n, k + 1, (x[k] * n + carry) \div Base)

\* the exact product with a whole number 0 <= n <= 100
exact_times(x, n) == times_from(x, n, 1, 0)

RECURSIVE div_from(_, _, _, _)
\* long division by a whole number 0 < s <= 100 from limb k down: the
\* remainder followed by the limbs of the quotient, least significant first
div_from(x, s, k, rem) ==
    IF k = 0 THEN <<rem>>
    ELSE div_from(x, s, k - 1, (rem * Base + x[k]) % s)
            \o <<(rem * Base + x[k]) \div s>>

\* x / 2, which is exact
exact_half(x) == Tail(div_from(x, 2, Limbs, 0))

\* round to nearest, ties to even; inexact tells that digits below the
\* last one of x were already dropped
round_nearest(x, inexact) ==
    LET drop == bit_length(x) - Mantissa
        kept == [k \in 1..Limbs |->
                    LET low == (k - 1) * LimbBits
                    IN  IF drop >= low + LimbBits THEN 0
                        ELSE IF drop <= low THEN x[k]
                        ELSE x[k] - (x[k] % Pow2(drop - low))]
        unit == [k \in 1..Limbs |->
                    LET low == (k - 1) * LimbBits
                    IN  IF low <= drop /\ drop < low + LimbBits
                        THEN Pow2(drop - low) ELSE 0]
        above_half == inexact \/ \E i \in 1..(drop - 1) : bit(x, i) = 1
    IN  IF drop <= 0 THEN x
        ELSE IF bit(x, drop) = 1 /\ (above_half \/ bit(x, drop + 1) = 1)
        THEN exact_add(kept, unit)
        ELSE kept

\* x + y, i * x and x / n on floats
float_add(x, y) ==
    Only({round_nearest(s, FALSE) : s \in {exact_add(x, y)}})
float_times(i, x) ==
    Only({round_nearest(p, FALSE) : p \in {exact_times(x, i)}})
float_div(x, n) ==
    Only({round_nearest(Tail(d), Head(d) # 0) :
            d \in {div_from(x, n, Limbs, 0)}})

float_lt(x, y) ==
    \E k \in 1..Limbs :
        x[k] < y[k] /\ \A j \in (k + 1)..Limbs : x[j] = y[j]
float_le(x, y) == x = y \/ float_lt(x, y)

\* round(x, 2) in hundredths: the hundredth nearest to the exact value of
\* the float, the even one of two equally near
hundredths(m) ==
    LET whole == m[Limbs]
        top == m[FracLimbs]
        rest == \E k \in 1..(FracLimbs - 1) : m[k] # 0
        half == top = Base \div 2 /\ ~rest
        more == top > Base \div 2 \/ (top = Base \div 2 /\ rest)
    IN  IF more \/ (half /\ whole % 2 = 1) THEN whole + 1 ELSE whole
round_2(x) == Only({hundredths(m) : m \in {exact_times(x, 100)}})

\* one bin of amount_distribution_histogram; count and percentage as in
\* the distributions
histogram_bin(amounts, bins, i, bin_width, bin_start, bin_end) ==
    LET inside(a) ==
            /\ float_le(bin_start, a)
            /\ IF i = bins - 1 THEN float_le(a, bin_end)
               ELSE float_lt(a, bin_end)
        count == Cardinality({k \in DOMAIN amounts :
                                inside(float_of(amounts[k]))})
    IN  [bin_start |-> round_2(bin_start),
         bin_end |-> round_2(bin_end),
         bin_center |-> round_2(float_add(bin_start, exact_half(bin_width))),
         count |-> count,
         percentage |-> Round2(count * 100, Len(amounts))]

\* amount_distribution_histogram on whole amounts: max - min is exact, the
\* bin edges are floats
amount_distribution_histogram(rs, bins) ==
    IF rs = <<>> \/ amounts_of(rs) = <<>> THEN <<>>
    ELSE LET amounts == amounts_of(rs)
             min_amount == MinOf(amounts)
             max_amount == MaxOf(amounts)
         IN  Only({ [n \in 1..bins |->
                        Only({histogram_bin(amounts, bins, n - 1, bin_width,
                                            bin_start,
                                            float_add(bin_start, bin_width)) :
                              bin_start \in
                                {float_add(float_of(min_amount),
                                           float_times(n - 1, bin_width))}})] :
                    bin_width \in
                        {float_div(float_of(max_amount - min_amount), bins)}})

----------------------------------------------------------------------------
(* The aggregation functions applied to a collection of records *)

AggPool ==
    { Receipt(1, T(<<"T">>), T(<<"B">>), Some(10), Some(Date(2024, 1, 5)),
              Some(1), None),
      Receipt(2, T(<<"t">>), None, Some(0), Some(Date(2024, 2, 10)),
              Some(2), None),
      Receipt(3, None, None, None, None, Some(3), None),
      Receipt(4, T(<<>>), T(<<"B">>), Some(30), Some(Date(2023, 3, 7)),
              Some(4), None),
      Receipt(5, T(<<"T">>), T(<<"c">>), Some(10), Some(Date(2024, 1, 15)),
              Some(5), None),
      Receipt(6, T(<<"t">>), T(<<"B">>), Some(30), Some(Date(2021, 1, 20)),
              Some(6), None),
      Receipt(7, None, T(<<"c">>), Some(20), Some(Date(2024, 8, 31)),
              Some(7), None) }

AggInit ==
    /\ called = "none"
    /\ arguments \in {<<rs>> : rs \in Collections(AggPool, MaxLen)}
    /\ returned = <<>>
    /\ SortIdle
    /\ SearchIdle
    /\ RequestIdle

\* a function is applied to the records once
Applied(name, value) ==
    /\ called = "none"
    /\ called' = name
    /\ returned' = value
    /\ UNCHANGED <<arguments, sortVars, searchVars, requestVars>>

CalculateBasicStats ==
    Applied("calculate_basic_stats", calculate_basic_stats(arguments[1]))

VendorFrequencyDistribution ==
    Applied("vendor_frequency_distribution",
            vendor_frequency_distribution(arguments[1]))

CategoryFrequencyDistribution ==
    Applied("category_frequency_distribution",
            category_frequency_distribution(arguments[1]))

\* a function that takes the records and one more argument
AppliedTo(name, argument, value) ==
    /\ called = "none"
    /\ called' = name
    /\ arguments' = <<arguments[1], argument>>
    /\ returned' = value
    /\ UNCHANGED <<sortVars, searchVars, requestVars>>

Limits == {0, 1, 2, 10}

TopVendorsByAmount ==
    \E limit \in Limits :
        AppliedTo("top_vendors_by_amount", limit,
                  top_vendors_by_amount(arguments[1], limit))

MonthlySpendingTrends ==
    Applied("monthly_spending_trends", monthly_spending_trends(arguments[1]))

SpendingByDayOfWeek ==
    Applied("spending_by_day_of_week", spending_by_day_of_week(arguments[1]))

QuarterlyAnalysis ==
    Applied("quarterly_analysis", quarterly_analysis(arguments[1]))

AggNext ==
    \/ CalculateBasicStats
    \/ QuarterlyAnalysis
    \/ SpendingByDayOfWeek
    \/ MonthlySpendingTrends
    \/ TopVendorsByAmount
    \/ VendorFrequencyDistribution
    \/ CategoryFrequencyDistribution

AggSpec == AggInit /\ [][AggNext]_vars

----------------------------------------------------------------------------
(* amount_distribution_histogram applied to records of whole amounts *)

HistPool ==
    { Receipt(1, T(<<"T">>), None, Some(1), None, Some(1), None),
      Receipt(2, T(<<"T">>), None, Some(2), None, Some(2), None),
      Receipt(3, T(<<"T">>), None, Some(3), None, Some(3), None),
      Receipt(4, T(<<"T">>), None, None, None, Some(4), None),
      Receipt(5, T(<<"T">>), None, Some(1), None, Some(5), None) }

Bins == {1, 2, 3}

HistInit ==
    /\ called = "none"
    /\ arguments \in {<<rs>> : rs \in Collections(HistPool, MaxLen)}
    /\ returned = <<>>
    /\ SortIdle
    /\ SearchIdle
    /\ RequestIdle

AmountDistributionHistogram ==
    \E bins \in Bins :
        AppliedTo("amount_distribution_histogram", bins,
                  amount_distribution_histogram(arguments[1], bins))

HistNext == AmountDistributionHistogram

HistSpec == HistInit /\ [][HistNext]_vars

----------------------------------------------------------------------------
(* Properties of the aggregation functions, over AggSpec *)

\* the places of a collection that carry an amount
WithAmount(rs) == {i \in DOMAIN rs : ~IsNone(rs[i].amount)}

RECURSIVE NonNullSum(_)
NonNullSum(rs) ==
    IF rs = <<>> THEN 0
    ELSE (IF IsNone(Head(rs).amount) THEN 0 ELSE Val(Head(rs).amount))
            + NonNullSum(Tail(rs))

\* C18: for a collection with at least one non-null amount the figures of
\* calculate_basic_stats are those of the non-null amounts only (count, sum,
\* min, max), with min <= median <= max, min <= mean <= max, the mean being
\* sum / count to the hundredth the figures are rounded to, and
\* range = max - min
C18_BasicStats ==
    (called = "calculate_basic_stats" /\ WithAmount(arguments[1]) # {}) =>
        LET rs == arguments[1]
            st == returned
            amounts == {Val(rs[i].amount) : i \in WithAmount(rs)}
        IN  /\ st.receipts_with_amounts = Cardinality(WithAmount(rs))
            /\ st.total_amount = 100 * NonNullSum(rs)
            /\ st.min_amount \in {100 * a : a \in amounts}
            /\ st.max_amount \in {100 * a : a \in amounts}
            /\ \A a \in amounts :
                  st.min_amount <= 100 * a /\ 100 * a <= st.max_amount
            /\ st.min_amount <= st.median_amount
            /\ st.median_amount <= st.max_amount
            /\ st.min_amount <= st.average_amount
            /\ st.average_amount <= st.max_amount
            /\ 2 * (st.average_amount * st.receipts_with_amounts
                        - st.total_amount) <= st.receipts_with_amounts
            /\ 2 * (st.total_amount
                        - st.average_amount * st.receipts_with_amounts)
                  <= st.receipts_with_amounts
            /\ st.amount_range = st.max_amount - st.min_amount

\* the stats of three records, one of them without an amount, have been
\* computed: two amounts, 0 and 10
C18_Witness ==
    /\ called = "calculate_basic_stats"
    /\ Len(arguments[1]) = 3
    /\ Cardinality(WithAmount(arguments[1])) = 2
    /\ returned.receipts_with_amounts = 2
    /\ returned.min_amount = 0
    /\ returned.median_amount = 500
    /\ returned.max_amount = 1000

\* C19: calculate_basic_stats of no records, or of records none of which
\* carries an amount, is the all-zero structure: every count and amount
\* figure 0, mode value null with frequency 0, standard deviation 0; with
\* exactly one amount the standard deviation is 0
C19_EmptyInput ==
    called = "calculate_basic_stats" =>
        /\ WithAmount(arguments[1]) = {} =>
              returned =
                [total_receipts |-> 0, receipts_with_amounts |-> 0,
                 total_amount |-> 0, average_amount |-> 0,
                 median_amount |-> 0,
                 mode_amount |-> [value |-> None, frequency |-> 0],
                 min_amount |-> 0, max_amount |-> 0, amount_range |-> 0,
                 standard_deviation |-> 0]
        /\ Cardinality(WithAmount(arguments[1])) = 1 =>
              returned.standard_deviation = 0

\* the stats of one record that has no amount have been computed
C19_Witness ==
    /\ called = "calculate_basic_stats"
    /\ Len(arguments[1]) = 1
    /\ WithAmount(arguments[1]) = {}
    /\ returned.total_receipts = 0
    /\ returned.mode_amount.value = None

\* the label a record is counted under: a vendor or category that is NULL
\* or blank is missing
LabelOf(r, field, sentinel) ==
    IF IsNone(r[field]) \/ r[field] = T(<<>>) THEN sentinel ELSE Val(r[field])

FirstWith(rs, field, sentinel, label) ==
    CHOOSE i \in DOMAIN rs :
        /\ LabelOf(rs[i], field, sentinel) = label
        /\ \A j \in 1..(i - 1) : LabelOf(rs[j], field, sentinel) # label

\* C20: vendor_frequency_distribution and category_frequency_distribution
\* return one entry per distinct label, a missing vendor counted under
\* "Unknown" and a missing category under "Uncategorized"; the counts sum
\* to the number of records; each percentage is count / total * 100 to the
\* hundredth it is rounded to, so the percentages sum to 100 within half a
\* hundredth an entry; entries are by count non-increasing, equal counts in
\* order of first occurrence in the input
C20_FrequencyDistribution ==
    called \in {"vendor_frequency_distribution",
                "category_frequency_distribution"} =>
        LET rs == arguments[1]
            out == returned
            field == IF called = "vendor_frequency_distribution"
                        THEN "vendor" ELSE "category"
            sentinel == IF field = "vendor" THEN Unknown ELSE Uncategorized
            total == Len(rs)
        IN  /\ {out[k].label : k \in DOMAIN out}
                  = {LabelOf(rs[i], field, sentinel) : i \in DOMAIN rs}
            /\ \A k, l \in DOMAIN out : out[k].label = out[l].label => k = l
            /\ \A k \in DOMAIN out :
                  /\ out[k].count =
                        Cardinality({i \in DOMAIN rs :
                            LabelOf(rs[i], field, sentinel) = out[k].label})
                  /\ 2 * (out[k].percentage * total - out[k].count * 10000)
                        <= total
                  /\ 2 * (out[k].count * 10000 - out[k].percentage * total)
                        <= total
            /\ SumSeq([k \in DOMAIN out |-> out[k].count]) = total
            /\ rs # <<>> =>
                  LET sum == SumSeq([k \in DOMAIN out |-> out[k].percentage])
                  IN  /\ 2 * (sum - 10000) <= Len(out)
                      /\ 2 * (10000 - sum) <= Len(out)
            /\ \A k, l \in DOMAIN out :
                  k < l =>
                    /\ out[k].count >= out[l].count
                    /\ out[k].count = out[l].count =>
                          FirstWith(rs, field, sentinel, out[k].label)
                            < FirstWith(rs, field, sentinel, out[l].label)

\* the vendors of three records, each counted once, one of them missing:
\* three entries of 33.33 percent in input order
C20_Witness ==
    /\ called = "vendor_frequency_distribution"
    /\ Len(arguments[1]) = 3
    /\ Len(returned) = 3
    /\ returned[1].label = <<"T">> /\ returned[2].label = <<"t">>
    /\ returned[3].label = Unknown
    /\ \A k \in 1..3 : returned[k].count = 1 /\ returned[k].percentage = 3333

\* the total of the amounts of the records counted under a vendor label
VendorSum(rs, label) ==
    NonNullSum(SelectSeq(rs, LAMBDA r : LabelOf(r, "vendor", Unknown) = label))

\* C21: top_vendors_by_amount(records, limit) with limit >= 0 returns
\* min(limit, number of distinct vendor labels) entries, one per label, by
\* total non-increasing; an entry's total is the sum of the amounts of the
\* records of its vendor (missing vendor under "Unknown"), its count their
\* number, its average total / count to the hundredth; no vendor left out
\* has a larger total than one returned
C21_TopVendors ==
    called = "top_vendors_by_amount" =>
        LET rs == arguments[1]
            limit == arguments[2]
            out == returned
            labels == {LabelOf(rs[i], "vendor", Unknown) : i \in DOMAIN rs}
            inside == {out[k].vendor : k \in DOMAIN out}
        IN  /\ Len(out) = IF limit < Cardinality(labels) THEN limit
                          ELSE Cardinality(labels)
            /\ inside \subseteq labels
            /\ \A k, l \in DOMAIN out : out[k].vendor = out[l].vendor => k = l
            /\ \A k, l \in DOMAIN out :
                  k < l => out[k].total_amount >= out[l].total_amount
            /\ \A k \in DOMAIN out :
                  LET n == Cardinality({i \in DOMAIN rs :
                              LabelOf(rs[i], "vendor", Unknown) = out[k].vendor})
                  IN  /\ out[k].total_amount = 100 * VendorSum(rs, out[k].vendor)
                      /\ out[k].transaction_count = n
                      /\ 2 * (out[k].average_amount * n - out[k].total_amount)
                            <= n
                      /\ 2 * (out[k].total_amount - out[k].average_amount * n)
                            <= n
            /\ \A v \in labels \ inside : \A k \in DOMAIN out :
                  100 * VendorSum(rs, v) <= out[k].total_amount

\* the top vendor of three records of three vendors has been asked for: the
\* one of the largest total is returned, the two others are left out
C21_Witness ==
    /\ called = "top_vendors_by_amount"
    /\ Len(arguments[1]) = 3
    /\ arguments[2] = 1
    /\ Cardinality({LabelOf(arguments[1][i], "vendor", Unknown) : i \in 1..3}) = 3
    /\ Len(returned) = 1
    /\ returned[1].total_amount = 3000
    /\ returned[1].transaction_count = 1

\* the records that have both a transaction date and an amount
Dated(rs) ==
    {i \in DOMAIN rs : ~IsNone(rs[i].transaction_date) /\ ~IsNone(rs[i].amount)}

YearMonth(r) ==
    <<Val(r.transaction_date) \div 10000,
      (Val(r.transaction_date) \div 100) % 100>>

\* the year and month an entry of the monthly series stands for
EntryMonth(rs, entry) ==
    CHOOSE ym \in {YearMonth(rs[i]) : i \in Dated(rs)} \cup {<<0, 0>>} :
        \/ \E i \in Dated(rs) :
              /\ ym = YearMonth(rs[i])
              /\ entry.month = month_key(Val(rs[i].transaction_date))
        \/ /\ ym = <<0, 0>>
           /\ \A i \in Dated(rs) :
                 entry.month # month_key(Val(rs[i].transaction_date))

\* C22: monthly_spending_trends returns one entry per distinct (year, month)
\* among the records that have both a transaction_date and an amount (the
\* amount 0 included), in chronological order; an entry's count is the
\* number of such records of its month and its total the sum of their
\* amounts, so the counts sum to the number of records with both fields
C22_MonthlyTrends ==
    called = "monthly_spending_trends" =>
        LET rs == arguments[1]
            out == returned
            months == {YearMonth(rs[i]) : i \in Dated(rs)}
            of(ym) == {i \in Dated(rs) : YearMonth(rs[i]) = ym}
        IN  /\ {EntryMonth(rs, out[k]) : k \in DOMAIN out} = months
            /\ Len(out) = Cardinality(months)
            /\ \A k, l \in DOMAIN out :
                  k < l =>
                    LET a == EntryMonth(rs, out[k])
                        b == EntryMonth(rs, out[l])
                    IN  a[1] < b[1] \/ (a[1] = b[1] /\ a[2] < b[2])
            /\ \A k \in DOMAIN out :
                  LET S == of(EntryMonth(rs, out[k]))
                  IN  /\ out[k].transaction_count = Cardinality(S)
                      /\ out[k].total_amount =
                            100 * SumSeq([i \in DOMAIN rs |->
                                    IF i \in S THEN Val(rs[i].amount) ELSE 0])
            /\ SumSeq([k \in DOMAIN out |-> out[k].transaction_count])
                  = Cardinality(Dated(rs))

\* C23: every entry i of a monthly series of any length k >= 1 carries a
\* moving average: the mean of the totals (and of the counts) of the last
\* min(3, i+1) months when that window holds at least 2 months, the entry's
\* own total (and count) when it holds the entry alone
C23_MovingAverages ==
    called = "monthly_spending_trends" =>
        LET out == returned
        IN  \A i \in DOMAIN out :
              LET first == IF i > 3 THEN i - 2 ELSE 1
                  n == i - first + 1
                  totals == SumSeq([k \in first..i |-> out[k].total_amount])
                  counts == SumSeq([k \in first..i |-> out[k].transaction_count])
              IN  /\ "moving_avg_amount" \in DOMAIN out[i]
                  /\ "moving_avg_count" \in DOMAIN out[i]
                  /\ 2 * (out[i].moving_avg_amount * n - totals) <= n
                  /\ 2 * (totals - out[i].moving_avg_amount * n) <= n
                  /\ 2 * (out[i].moving_avg_count * n - 10 * counts) <= n
                  /\ 2 * (10 * counts - out[i].moving_avg_count * n) <= n

\* the weekday of a date, Monday 0: 2001-01-01 was a Monday, and a year
\* moves the weekday on by one day, a leap year by two
Leap(y) == y % 4 = 0 /\ (y % 100 # 0 \/ y % 400 = 0)
DayOfYear(date) ==
    LET m == (date \div 100) % 100
        lengths == <<31, IF Leap(date \div 10000) THEN 29 ELSE 28, 31, 30, 31,
                     30, 31, 31, 30, 31, 30, 31>>
    IN  SumSeq(SubSeq(lengths, 1, m - 1)) + (date % 100)
WeekdayOf(date) ==
    LET y == date \div 10000
        leaps == Cardinality({x \in 2001..(y - 1) : Leap(x)})
    IN  ((y - 2001) + leaps + DayOfYear(date) - 1) % 7

\* C24: spending_by_day_of_week returns, for every collection of records,
\* the empty one included, exactly 7 entries in the order Monday (0) to
\* Sunday (6); a weekday without eligible record has count 0, total 0 and
\* average 0, and a record that has a date and an amount is counted in the
\* bucket of the weekday of its date (one of amount 0 adds nothing to a
\* total, so the count may or may not include it)
C24_SevenWeekdays ==
    called = "spending_by_day_of_week" =>
        LET rs == arguments[1]
            out == returned
            on(d) == {i \in Dated(rs) :
                        WeekdayOf(Val(rs[i].transaction_date)) = d}
            paid(d) == {i \in on(d) : Val(rs[i].amount) # 0}
        IN  /\ Len(out) = 7
            /\ \A d \in 0..6 :
                  /\ out[d + 1].day_number = d
                  /\ out[d + 1].day_of_week = day_names[d + 1]
                  /\ Cardinality(paid(d)) <= out[d + 1].transaction_count
                  /\ out[d + 1].transaction_count <= Cardinality(on(d))
                  /\ out[d + 1].total_amount =
                        100 * SumSeq([i \in DOMAIN rs |->
                                IF i \in on(d) THEN Val(rs[i].amount) ELSE 0])
                  /\ on(d) = {} =>
                        /\ out[d + 1].transaction_count = 0
                        /\ out[d + 1].total_amount = 0
                        /\ out[d + 1].average_amount = 0

\* the records counted by quarterly_analysis: with a date and an amount that
\* is not 0
Eligible(rs) == {i \in Dated(rs) : Val(rs[i].amount) # 0}

\* year and quarter of a record, the quarter being ceil(month / 3)
YearQuarter(r) ==
    LET m == (Val(r.transaction_date) \div 100) % 100
    IN  <<Val(r.transaction_date) \div 10000,
          CHOOSE q \in 1..4 : 3 * (q - 1) < m /\ m <= 3 * q>>

\* C26: quarterly_analysis has one entry per (year, quarter) of the eligible
\* records, quarter = ceil(month / 3); an entry has a year-over-year growth
\* rate only by comparison with the same quarter number of the year before:
\* (total - previous total) / previous total * 100, to the hundredth, when
\* the year before has that quarter with a total > 0, and no rate (null or
\* not set) when the year before has no data for that quarter number or a
\* total of 0
C26_YearOverYear ==
    called = "quarterly_analysis" =>
        LET rs == arguments[1]
            out == returned
            rate(e) == IF "yoy_growth_rate" \in DOMAIN e
                       THEN e.yoy_growth_rate ELSE None
        IN  /\ {<<out[k].year, out[k].quarter_number>> : k \in DOMAIN out}
                  = {YearQuarter(rs[i]) : i \in Eligible(rs)}
            /\ \A k, l \in DOMAIN out :
                  (out[k].year = out[l].year
                     /\ out[k].quarter_number = out[l].quarter_number) => k = l
            /\ \A k \in DOMAIN out :
                  LET before == {l \in DOMAIN out :
                                    /\ out[l].year = out[k].year - 1
                                    /\ out[l].quarter_number
                                          = out[k].quarter_number
                                    /\ out[l].total_amount > 0}
                  IN  /\ before = {} => rate(out[k]) = None
                      /\ \A l \in before :
                            /\ rate(out[k]) # None
                            /\ LET g == Val(rate(out[k]))
                                   cur == out[k].total_amount
                                   prev == out[l].total_amount
                               IN  /\ 2 * (g * prev - 10000 * (cur - prev))
                                         <= prev
                                   /\ 2 * (10000 * (cur - prev) - g * prev)
                                         <= prev

\* C25: for bins >= 1 and a collection with at least one non-null amount,
\* amount_distribution_histogram returns exactly `bins` bins that follow one
\* another from min to max, and the bin counts sum to the number of records
\* that carry an amount, every amount being counted in exactly one bin,
\* also when all amounts are equal (over HistSpec)
C25_Histogram ==
    (called = "amount_distribution_histogram"
        /\ WithAmount(arguments[1]) # {}) =>
        LET rs == arguments[1]
            bins == arguments[2]
            out == returned
            amounts == {Val(rs[i].amount) : i \in WithAmount(rs)}
        IN  /\ Len(out) = bins
            /\ out[1].bin_start = 100 * MinOf(amounts_of(rs))
            /\ out[bins].bin_end = 100 * MaxOf(amounts_of(rs))
            /\ \A k \in 1..(bins - 1) : out[k].bin_end = out[k + 1].bin_start
            /\ SumSeq([k \in DOMAIN out |-> out[k].count])
                  = Cardinality(WithAmount(rs))

----------------------------------------------------------------------------
(* search_receipts (POST /receipts/search): requests served side by side.
   A request is taken through the handler one statement at a time, which
   allows every interleaving a server can give two requests. *)

Requests == {"r1", "r2"}

\* the request body: filters, and sort options or none
RequestFilters ==
    { NoFilters, Filters(T(<<"E","A">>), None, None, None, None, None, None) }
SortOptions ==
    { [field |-> "amount", direction |-> "desc"],
      [field |-> "vendor", direction |-> "asc"],
      [field |-> "transaction_date", direction |-> "desc"],
      [field |-> "category", direction |-> "asc"] }

\* SortAlgorithms(): the place of the instance a request gets among the
\* instances constructed so far
new_instance_shared(heap) == 1
new_instance(heap) == Len(heap) + 1

\* the if / elif on sort.field, each helper with its default algorithm
sort_results(self, results, sort) ==
    IF sort.field = "amount"
        THEN sort_by_amount(self, results, sort.direction = "desc", "timsort")
    ELSE IF sort.field \in {"transaction_date", "upload_date"}
        THEN sort_by_date(self, results, sort.field, sort.direction = "desc",
                          "timsort")
    ELSE IF sort.field = "vendor"
        THEN sort_by_vendor(self, results, sort.direction = "desc", "timsort")
    ELSE sort_by_category(self, results, sort.direction = "desc", "timsort")

\* results[skip:skip + limit]
paginate(results, skip, limit) ==
    IF skip >= Len(results) THEN <<>>
    ELSE SubSeq(results, skip + 1,
                IF skip + limit < Len(results) THEN skip + limit ELSE Len(results))

NoRequest ==
    [pc |-> "received", filters |-> NoFilters, sort |-> None,
     search_algo |-> EmptyIndexes, found |-> <<>>, results |-> <<>>,
     sort_algo |-> 0, response |-> <<>>]

RequestInit ==
    /\ db \in Tables
    /\ vendor_index = <<>>
    /\ category_index = <<>>
    /\ keyword_index = <<>>
    /\ index_db = <<>>
    /\ refreshed = {}
    /\ refresh = NoRefresh
    /\ changes = 0
    /\ query = NoQuery
    /\ search_result = <<>>
    /\ requests = [r \in Requests |-> NoRequest]
    /\ engines = <<>>
    /\ SortIdle
    /\ CallIdle

\* search_algo = SearchAlgorithms(db); results = multi_criteria_search(...)
SearchStep ==
    \E r \in Requests, filters \in RequestFilters,
       sort \in {None} \cup {Some(s) : s \in SortOptions} :
        /\ requests[r].pc = "received"
        /\ \E rows \in {multi_criteria_search(db, filters)} :
              requests' = [requests EXCEPT ![r] =
                  [@ EXCEPT !.pc = IF IsNone(sort) THEN "sorted" ELSE "searched",
                            !.filters = filters,
                            !.sort = sort,
                            !.search_algo = build_search_indexes(db),
                            !.found = rows,
                            !.results = rows]]
        /\ UNCHANGED <<engines, sortVars, searchVars, callVars>>

\* sort_algo = SortAlgorithms()
ConstructStep ==
    \E r \in Requests :
        /\ requests[r].pc = "searched"
        /\ \E a \in {new_instance(engines)} :
              /\ engines' = IF a > Len(engines) THEN Append(engines, Fresh)
                            ELSE engines
              /\ requests' = [requests EXCEPT ![r] =
                    [@ EXCEPT !.pc = "constructed", !.sort_algo = a]]
        /\ UNCHANGED <<sortVars, searchVars, callVars>>

\* results = sort_algo.sort_by_...(results, sort.direction == "desc")
SortStep ==
    \E r \in Requests :
        /\ requests[r].pc = "constructed"
        /\ \E ret \in {sort_results(engines[requests[r].sort_algo],
                                    requests[r].results, Val(requests[r].sort))} :
              /\ engines' = [engines EXCEPT ![requests[r].sort_algo] =
                    [comparison_count |-> ret.comparison_count,
                     swap_count |-> ret.swap_count]]
              /\ requests' = [requests EXCEPT ![r] =
                    [@ EXCEPT !.pc = "sorted", !.results = ret.result]]
        /\ UNCHANGED <<sortVars, searchVars, callVars>>

\* return results[skip:skip + limit]
RespondStep ==
    \E r \in Requests, skip \in {0, 1}, limit \in {1, 2} :
        /\ requests[r].pc = "sorted"
        /\ requests' = [requests EXCEPT ![r] =
              [@ EXCEPT !.pc = "done",
                        !.response = paginate(requests[r].results, skip, limit)]]
        /\ UNCHANGED <<engines, sortVars, searchVars, callVars>>

RequestNext ==
    \/ SearchStep
    \/ ConstructStep
    \/ SortStep
    \/ RespondStep

RequestSpec == RequestInit /\ [][RequestNext]_vars

\* what the sort of request q counts, and returns, on an instance of its own
OwnRun(q) == sort_results(Fresh, q.found, Val(q.sort))

\* C9: every search request that sorts constructs its own SortAlgorithms
\* instance: no two requests hold the same one, and whatever the other
\* requests do, the counters of a request's instance are those of a new
\* instance until its own sort has run and those of its own sort run alone
\* afterwards.
C9_OwnSortEngine ==
    \A r \in Requests :
        requests[r].sort_algo # 0 =>
            /\ \A o \in Requests \ {r} :
                  requests[o].sort_algo # requests[r].sort_algo
            /\ requests[r].pc = "constructed" =>
                  engines[requests[r].sort_algo] = Fresh
            /\ requests[r].pc \in {"sorted", "done"} =>
                  /\ engines[requests[r].sort_algo].comparison_count
                        = OwnRun(requests[r]).comparison_count
                  /\ engines[requests[r].sort_algo].swap_count
                        = OwnRun(requests[r]).swap_count
                  /\ requests[r].results = OwnRun(requests[r]).result

\* the request that constructed its instance second has sorted first, and
\* the sort changed the order of what it found
C9_Witness ==
    /\ requests["r1"].pc = "sorted"
    /\ requests["r1"].sort_algo = Len(engines)
    /\ requests["r1"].results # requests["r1"].found
    /\ requests["r2"].pc = "constructed"
    /\ requests["r2"].sort_algo # 0
    /\ requests["r2"].sort_algo < requests["r1"].sort_algo

====
